---------------------------- MODULE Spec2Model ----------------------------
(***************************************************************************)
(* hudhook, DirectX 12 hook (src/src/hooks/dx12.rs): the three detours     *)
(* (Present, ExecuteCommandLists, ResizeBuffers), the spin-loop Fence      *)
(* guards, the lazily built ImguiRenderer with its FrameContext pool, the  *)
(* command queue capture and ImguiDx12Hooks::unhook, run by host threads   *)
(* that interleave at every shared-memory access.                          *)
(***************************************************************************)
EXTENDS Integers, Sequences, FiniteSets, TLC

\* ------------------------------------------------------------------ bounds
\* Detour calls the host makes in one behaviour of the concurrent model.
MaxCalls == 2
\* Detour calls the single host thread makes in the frame model.
MaxFrameCalls == 5
\* Largest swap chain buffer count the host chooses.
MaxBuffers == 2
\* Renderers built in one behaviour.
MaxRenderers == 2
\* Calls of ImguiDx12Hooks::new in one behaviour.
MaxSessions == 2

\* Host threads that call the hooked entry points concurrently.
Threads == {"t1", "t2"}
\* ID3D12CommandQueue objects of the host: two of the direct class, one compute.
Queues == {"direct1", "direct2", "compute"}
None == "None"
\* D3D12_COMMAND_QUEUE_DESC.Type: D3D12_COMMAND_LIST_TYPE_DIRECT is 0.
QueueType(q) == IF q \in {"direct1", "direct2"} THEN 0 ELSE 2
\* The MhHooks ImguiDx12Hooks::new creates.
AllHooks == {"present", "submit", "resize"}
\* Results the original functions hand back.
HResults == {"S_OK", "E_FAIL"}

VARIABLES
    th,                  \* host threads: position in a detour and its locals
    uh,                  \* the thread that runs ImguiDx12Hooks::unhook
    budget,              \* detour calls the host may still begin
    TRAMPOLINE,          \* OnceCell of the trampolines: 0 unset, else the session
    IMGUI_RENDER_LOOP,   \* OnceCell of the overlay producer: 0 unset, else the session
    IMGUI_RENDERER,      \* OnceCell<Mutex<Box<ImguiRenderer>>>: [some, ptr, lock]
    COMMAND_QUEUE_GUARD, \* OnceCell<()>: [set, init]
    DXGI_DEBUG_ENABLED,
    CQECL_RUNNING, PRESENT_RUNNING, RBUF_RUNNING,   \* Fence(AtomicBool)
    FENCE_MAX,           \* static AtomicU64 of FrameContext::incr
    rend,                \* heap: the ImguiRenderer boxes built so far
    wndProc,             \* GWLP_WNDPROC of the host's output window
    swap,                \* the host's swap chains: [bufCount, backIdx]
    gpuQ,                \* work submitted on the captured queue, not yet executed
    crashed,             \* a panic or a fault ended the process
    mouse,               \* the OS windows and cursor, and the overlay's io.mouse_pos
    hooks,               \* ImguiDx12Hooks: installs so far, MhHooks of the last one
    wp,                  \* the window's thread inside imgui_wnd_proc
    gl,                  \* the OpenGL hooks: statics, window, the swapping thread
    submitted            \* history: classes of the queues that entered the submit
                         \* detour: "none" yet, "nondirect" only, or a "direct" one

vars == <<th, uh, budget, TRAMPOLINE, IMGUI_RENDER_LOOP, IMGUI_RENDERER,
          COMMAND_QUEUE_GUARD, DXGI_DEBUG_ENABLED, CQECL_RUNNING, PRESENT_RUNNING,
          RBUF_RUNNING, FENCE_MAX, rend, wndProc, swap, gpuQ, crashed, hooks,
          wp, gl, submitted, mouse>>

statics == <<TRAMPOLINE, IMGUI_RENDER_LOOP, DXGI_DEBUG_ENABLED, hooks, wp, gl, submitted>>
globals == <<statics, mouse>>
guards == <<CQECL_RUNNING, PRESENT_RUNNING, RBUF_RUNNING>>

\* ---------------------------------------------------------------- windows
\* The host's windows: the swap chain's output window "out", its parent "top",
\* a child "child" of the output window, and a top-level window "other" of
\* another application. NullWindow is the handle GetForegroundWindow returns
\* when no window is in the foreground.
Windows == {"top", "out", "child", "other"}
NullWindow == "NULL"
OutputWindow == "out"
ParentOf(w) == CASE w = "out" -> "top" [] w = "child" -> "out" [] OTHER -> NullWindow

RECURSIVE Ancestors(_)
Ancestors(w) ==
    IF ParentOf(w) = NullWindow THEN {} ELSE {ParentOf(w)} \cup Ancestors(ParentOf(w))

\* IsChild(hWndParent, hWnd): hWnd is a child or a descendant of hWndParent.
IsChild(hWndParent, hWnd) == hWndParent \in Ancestors(hWnd)

\* Screen coordinates the cursor can be at, and the screen position of the
\* output window's client area.
CursorPositions == {<<1, 2>>, <<3, 1>>}
ClientOrigin == <<1, 1>>
\* ScreenToClient(OutputWindow, &pos).
ScreenToClient(p) == <<p[1] - ClientOrigin[1], p[2] - ClientOrigin[2]>>

\* io.mouse_pos of an overlay context that never had a position set
\* ([-FLT_MAX, -FLT_MAX]): no client position.
Unset == <<-9, -9>>

\* No window in the foreground, every OS call succeeding.
NoForeground ==
    [fg |-> NullWindow, cursor |-> <<1, 2>>, gcr |-> TRUE, gcp |-> TRUE, stc |-> TRUE,
     pos |-> Unset]

\* render's refresh of the overlay's input: with GetClientRect ok (gcr), a valid
\* foreground window that is the output window or passes
\* IsChild(active_window, OutputWindow), GetCursorPos ok (gcp) and
\* ScreenToClient ok (stc), io.mouse_pos becomes the cursor's client position.
RefreshMouse(m) ==
    IF /\ m.gcr
       /\ m.fg # NullWindow
       /\ m.fg = OutputWindow \/ IsChild(m.fg, OutputWindow)
       /\ m.gcp /\ m.stc
      THEN [m EXCEPT !.pos = ScreenToClient(m.cursor)]
      ELSE m

\* ------------------------------------------------------------------ state
\* A host thread outside any detour.
IdleThread ==
    [pc |-> "idle", kind |-> None, q |-> None, sc |-> None, cnt |-> 0,
     nested |-> FALSE, cur |-> 0, idx |-> 0, cb |-> 0,
     orig |-> 0, oarg |-> None, norig |-> 0, res |-> None, ret |-> None,
     mine |-> 0, copyLocked |-> FALSE]

\* The window's thread outside imgui_wnd_proc. how: what the procedure did with
\* the message it is returning from.
IdleWnd == [pc |-> "idle", cur |-> 0, how |-> None]

\* seen (history): the threads that were inside the present detour when unhook
\* was called and have not returned from it since.
IdleUnhook == [pc |-> "idle", mine |-> 0, copyLocked |-> FALSE, seen |-> {}]

\* FrameContext as ImguiRenderer::new builds it: fence created at 0, fence_val 0.
\* completed is the fence object's completed value (GetCompletedValue).
NewFrameContext == [fence_val |-> 0, completed |-> 0]

\* The box ImguiRenderer::new returns for swap chain sc: one FrameContext per
\* buffer of sd.BufferCount, no queue, and the window procedure that
\* SetWindowLongPtrA returned (the one installed at that moment).
NewRenderer(sc) ==
    [wnd_proc |-> wndProc,
     command_queue |-> None,
     frame_contexts |-> [i \in 1..swap[sc].bufCount |-> NewFrameContext],
     command_list |-> <<>>,
     swap_chain |-> sc,
     freed |-> FALSE]

\* The OpenGL statics after ImguiOpenGl3Hooks::new, the host's window behind
\* the device context (viewport width and height, client rectangle right and
\* bottom, window procedure) and the thread that swaps, outside the detour.
GlInstalled ==
    [pc |-> "idle", dc |-> None, cb |-> 0, orig |-> 0, oarg |-> None, got |-> FALSE,
     IMGUI_RENDERER |-> [some |-> FALSE, wnd_proc |-> None,
                         resolution_and_rect |-> None],
     IMGUI_RENDER_LOOP |-> 1,
     TRAMPOLINE |-> 1,
     viewport |-> <<1, 1>>, rect |-> <<1, 1>>, wndProc |-> "host"]

\* The statics after ImguiDx12Hooks::new, with DXGI debugging switched on by
\* the client (enable_dxgi_debug), and the host's swap chain and window.
InitStatics ==
    /\ uh = IdleUnhook
    /\ TRAMPOLINE = 1
    /\ IMGUI_RENDER_LOOP = 1
    /\ DXGI_DEBUG_ENABLED = TRUE
    /\ CQECL_RUNNING = FALSE
    /\ PRESENT_RUNNING = FALSE
    /\ RBUF_RUNNING = FALSE
    /\ FENCE_MAX = 0
    /\ gpuQ = <<>>
    /\ crashed = FALSE
    /\ gl = GlInstalled
    /\ wp = IdleWnd
    /\ hooks = [session |-> 1, created |-> AllHooks]

\* The same with no window in the foreground.
InitShared == InitStatics /\ mouse = NoForeground

\* No detour has run yet.
InitFresh ==
    /\ InitShared
    /\ IMGUI_RENDERER = [some |-> FALSE, ptr |-> 0, lock |-> FALSE]
    /\ COMMAND_QUEUE_GUARD = [set |-> FALSE, init |-> FALSE]
    /\ rend = <<>>
    /\ wndProc = "host"
    /\ swap = [sc \in {"sc1"} |-> [bufCount |-> MaxBuffers, backIdx |-> 0]]
    /\ submitted = "none"

\* The host's first Present and then its first ExecuteCommandLists on a direct
\* queue have returned: the renderer is built and holds that queue, no frame
\* has been rendered yet (the state FrameReachesActive shows reachable from
\* InitFresh).
ActiveRenderer ==
    /\ IMGUI_RENDERER = [some |-> TRUE, ptr |-> 1, lock |-> FALSE]
    /\ COMMAND_QUEUE_GUARD = [set |-> TRUE, init |-> FALSE]
    /\ rend = << [wnd_proc |-> "host",
                  command_queue |-> "direct1",
                  frame_contexts |-> [i \in 1..MaxBuffers |-> NewFrameContext],
                  command_list |-> <<>>,
                  swap_chain |-> "sc1",
                  freed |-> FALSE] >>
    /\ wndProc = "imgui"
    /\ swap = [sc \in {"sc1"} |-> [bufCount |-> MaxBuffers, backIdx |-> 1 % MaxBuffers]]
    /\ submitted = "direct"

InitActive == InitShared /\ ActiveRenderer

\* What the OS reports during a present: the foreground window, the cursor, and
\* whether GetClientRect, GetCursorPos and ScreenToClient succeed.
MouseInputs ==
    [fg : Windows \cup {NullWindow}, cursor : CursorPositions, gcr : BOOLEAN,
     gcp : BOOLEAN, stc : BOOLEAN, pos : {Unset}]

\* One host thread from the active state, under any report of the OS.
InitMouse ==
    /\ InitStatics /\ ActiveRenderer
    /\ mouse \in MouseInputs
    /\ th = [t \in {"t1"} |-> IdleThread]
    /\ budget = MaxCalls + 1

\* The process before ImguiDx12Hooks::new: every static as its initializer
\* leaves it, DXGI debugging switched on by the client.
InitUninstalled ==
    /\ uh = IdleUnhook
    /\ TRAMPOLINE = 0
    /\ IMGUI_RENDER_LOOP = 0
    /\ DXGI_DEBUG_ENABLED = TRUE
    /\ CQECL_RUNNING = FALSE /\ PRESENT_RUNNING = FALSE /\ RBUF_RUNNING = FALSE
    /\ FENCE_MAX = 0
    /\ gpuQ = <<>>
    /\ crashed = FALSE
    /\ gl = GlInstalled
    /\ wp = IdleWnd
    /\ hooks = [session |-> 0, created |-> {}]
    /\ mouse = NoForeground
    /\ IMGUI_RENDERER = [some |-> FALSE, ptr |-> 0, lock |-> FALSE]
    /\ COMMAND_QUEUE_GUARD = [set |-> FALSE, init |-> FALSE]
    /\ rend = <<>>
    /\ wndProc = "host"
    /\ swap = [sc \in {"sc1"} |-> [bufCount |-> MaxBuffers, backIdx |-> 0]]
    /\ submitted = "none"
    /\ th = [t \in {"t1"} |-> IdleThread]
    /\ budget = MaxCalls + 1

\* Two host threads and the unhooking thread, from either state.
Init ==
    /\ InitFresh \/ InitActive
    /\ th = [t \in Threads |-> IdleThread]
    /\ budget = MaxCalls

\* One host thread, from the fresh state.
InitFrame ==
    /\ InitFresh
    /\ th = [t \in {"t1"} |-> IdleThread]
    /\ budget = MaxFrameCalls

Set(t, r) == th' = [th EXCEPT ![t] = r]
Goto(t, l) == th' = [th EXCEPT ![t].pc = l]
Live == ~crashed

\* Outcomes of dereferencing the box of renderer r: a box that was already
\* dropped is a use after free, which either faults or reads the stale memory.
Faults(r) == IF rend[r].freed THEN {TRUE, FALSE} ELSE {FALSE}

\* A panic inside an extern "system" detour (expect, unwrap, index out of
\* bounds) ends the process.
Panic ==
    /\ crashed' = TRUE
    /\ UNCHANGED <<th, uh, budget, globals, IMGUI_RENDERER, COMMAND_QUEUE_GUARD,
                   guards, FENCE_MAX, rend, wndProc, swap, gpuQ>>

\* ------------------------------------------- imgui_execute_command_lists_impl
\* FenceGuard::new on CQECL_RUNNING: the call enters the detour body.
ExecuteCommandLists_Enter(t, q) ==
    /\ Live /\ th[t].pc = "idle" /\ budget > 0
    /\ budget' = budget - 1
    /\ CQECL_RUNNING' = TRUE
    /\ Set(t, [IdleThread EXCEPT !.pc = "s_guard", !.kind = "submit", !.q = q])
    /\ submitted' = IF submitted = "direct" \/ QueueType(q) = 0 THEN "direct"
                                                                 ELSE "nondirect"
    /\ UNCHANGED <<uh, TRAMPOLINE, IMGUI_RENDER_LOOP, DXGI_DEBUG_ENABLED, hooks, wp, gl, mouse,
                   IMGUI_RENDERER, COMMAND_QUEUE_GUARD, PRESENT_RUNNING,
                   RBUF_RUNNING, FENCE_MAX, rend, wndProc, swap, gpuQ, crashed>>

\* The capture check without the short-circuit of a cell that is already set.
ExecuteCommandLists_Guard_NoShortCircuit(t) ==
    /\ Live /\ th[t].pc = "s_guard"
    /\ ~COMMAND_QUEUE_GUARD.init
    /\ IF QueueType(th[t].q) # 0 \/ ~IMGUI_RENDERER.some
          THEN Goto(t, "s_orig") /\ UNCHANGED COMMAND_QUEUE_GUARD
          ELSE /\ Goto(t, "s_lock")
               /\ COMMAND_QUEUE_GUARD' = [COMMAND_QUEUE_GUARD EXCEPT !.init = TRUE]
    /\ UNCHANGED <<uh, budget, globals, IMGUI_RENDERER, guards, FENCE_MAX, rend,
                   wndProc, swap, gpuQ, crashed>>

\* The capture check without the test of the queue's class.
ExecuteCommandLists_Guard_NoTypeCheck(t) ==
    /\ Live /\ th[t].pc = "s_guard"
    /\ IF COMMAND_QUEUE_GUARD.set
          THEN Goto(t, "s_orig") /\ UNCHANGED COMMAND_QUEUE_GUARD
          ELSE /\ ~COMMAND_QUEUE_GUARD.init
               /\ IF ~IMGUI_RENDERER.some
                     THEN Goto(t, "s_orig") /\ UNCHANGED COMMAND_QUEUE_GUARD
                     ELSE /\ Goto(t, "s_lock")
                          /\ COMMAND_QUEUE_GUARD' = [COMMAND_QUEUE_GUARD EXCEPT !.init = TRUE]
    /\ UNCHANGED <<uh, budget, globals, IMGUI_RENDERER, guards, FENCE_MAX, rend,
                   wndProc, swap, gpuQ, crashed>>

\* The capture check that accepts a direct queue while no renderer exists.
ExecuteCommandLists_Guard_NoRendererCheck(t) ==
    /\ Live /\ th[t].pc = "s_guard"
    /\ IF COMMAND_QUEUE_GUARD.set
          THEN Goto(t, "s_orig") /\ UNCHANGED COMMAND_QUEUE_GUARD
          ELSE /\ ~COMMAND_QUEUE_GUARD.init
               /\ IF QueueType(th[t].q) # 0
                     THEN Goto(t, "s_orig") /\ UNCHANGED COMMAND_QUEUE_GUARD
                     ELSE /\ Goto(t, IF IMGUI_RENDERER.some THEN "s_lock" ELSE "s_ok")
                          /\ COMMAND_QUEUE_GUARD' = [COMMAND_QUEUE_GUARD EXCEPT !.init = TRUE]
    /\ UNCHANGED <<uh, budget, globals, IMGUI_RENDERER, guards, FENCE_MAX, rend,
                   wndProc, swap, gpuQ, crashed>>

\* COMMAND_QUEUE_GUARD.get_or_try_init: a set cell short-circuits; a second
\* initializer waits for the running one; the closure rejects a queue that is not
\* of the direct class and a missing renderer.
ExecuteCommandLists_Guard(t) ==
    /\ Live /\ th[t].pc = "s_guard"
    /\ IF COMMAND_QUEUE_GUARD.set
          THEN Goto(t, "s_orig") /\ UNCHANGED COMMAND_QUEUE_GUARD
          ELSE /\ ~COMMAND_QUEUE_GUARD.init
               /\ IF QueueType(th[t].q) # 0 \/ ~IMGUI_RENDERER.some
                     THEN Goto(t, "s_orig") /\ UNCHANGED COMMAND_QUEUE_GUARD
                     ELSE /\ Goto(t, "s_lock")
                          /\ COMMAND_QUEUE_GUARD' = [COMMAND_QUEUE_GUARD EXCEPT !.init = TRUE]
    /\ UNCHANGED <<uh, budget, globals, IMGUI_RENDERER, guards, FENCE_MAX, rend,
                   wndProc, swap, gpuQ, crashed>>

\* renderer.lock().command_queue = Some(cmd_queue.clone()): the lock is taken,
\* the queue stored into the box the cell points to, the lock released.
ExecuteCommandLists_Store(t) ==
    /\ Live /\ th[t].pc = "s_lock"
    /\ ~IMGUI_RENDERER.lock
    /\ \E fault \in Faults(IMGUI_RENDERER.ptr) :
          IF fault
             THEN Panic
             ELSE /\ rend' = [rend EXCEPT ![IMGUI_RENDERER.ptr].command_queue = th[t].q]
                  /\ Goto(t, "s_ok")
                  /\ UNCHANGED <<uh, budget, globals, IMGUI_RENDERER, COMMAND_QUEUE_GUARD,
                                 guards, FENCE_MAX, wndProc, swap, gpuQ, crashed>>

\* The closure returned Ok(()): the cell becomes set.
ExecuteCommandLists_Ok(t) ==
    /\ Live /\ th[t].pc = "s_ok"
    /\ COMMAND_QUEUE_GUARD' = [set |-> TRUE, init |-> FALSE]
    /\ Goto(t, "s_orig")
    /\ UNCHANGED <<uh, budget, globals, IMGUI_RENDERER, guards, FENCE_MAX, rend,
                   wndProc, swap, gpuQ, crashed>>

\* The submit detour returning without the call when no trampoline is stored.
ExecuteCommandLists_Orig_Silent(t) ==
    /\ Live /\ th[t].pc = "s_orig"
    /\ IF TRAMPOLINE = 0
          THEN /\ Goto(t, "s_ret")
               /\ UNCHANGED gpuQ
          ELSE IF th[t].nested
                     THEN /\ Set(t, [th[t] EXCEPT !.pc = "s_ret", !.norig = @ + 1])
                          /\ gpuQ' = Append(gpuQ, [op |-> "exec", r |-> th[t].cur,
                                                   ctx |-> th[t].idx, val |-> 0,
                                                   list |-> rend[th[t].cur].command_list])
                     ELSE /\ Set(t, [th[t] EXCEPT !.pc = "s_ret", !.orig = @ + 1,
                                                  !.oarg = th[t].q])
                          /\ UNCHANGED gpuQ
    /\ UNCHANGED <<uh, budget, globals, IMGUI_RENDERER, COMMAND_QUEUE_GUARD,
                   guards, FENCE_MAX, rend, wndProc, swap, crashed>>

\* TRAMPOLINE.get().expect(..), then the original ExecuteCommandLists. The
\* renderer's own submission (nested) hands its command list to the GPU here.
ExecuteCommandLists_Orig(t) ==
    /\ Live /\ th[t].pc = "s_orig"
    /\ IF TRAMPOLINE = 0
          THEN Panic
          ELSE /\ IF th[t].nested
                     THEN /\ Set(t, [th[t] EXCEPT !.pc = "s_ret", !.norig = @ + 1])
                          /\ gpuQ' = Append(gpuQ, [op |-> "exec", r |-> th[t].cur,
                                                   ctx |-> th[t].idx, val |-> 0,
                                                   list |-> rend[th[t].cur].command_list])
                     ELSE /\ Set(t, [th[t] EXCEPT !.pc = "s_ret", !.orig = @ + 1,
                                                  !.oarg = th[t].q])
                          /\ UNCHANGED gpuQ
               /\ UNCHANGED <<uh, budget, globals, IMGUI_RENDERER, COMMAND_QUEUE_GUARD,
                              guards, FENCE_MAX, rend, wndProc, swap, crashed>>

\* Drop of the FenceGuard: CQECL_RUNNING is stored false. A nested call returns
\* into ImguiRenderer::render.
ExecuteCommandLists_Return(t) ==
    /\ Live /\ th[t].pc = "s_ret"
    /\ CQECL_RUNNING' = FALSE
    /\ IF th[t].nested
          THEN Set(t, [th[t] EXCEPT !.pc = "p_signal", !.nested = FALSE, !.q = None])
          ELSE Set(t, IdleThread)
    /\ UNCHANGED <<uh, budget, globals, IMGUI_RENDERER, COMMAND_QUEUE_GUARD,
                   PRESENT_RUNNING, RBUF_RUNNING, FENCE_MAX, rend, wndProc, swap,
                   gpuQ, crashed>>

\* ----------------------------------------- imgui_dxgi_swap_chain_present_impl
\* FenceGuard::new on PRESENT_RUNNING, then TRAMPOLINE.get().expect(..).
Present_Enter(t, sc) ==
    /\ Live /\ th[t].pc = "idle" /\ budget > 0
    /\ budget' = budget - 1
    /\ PRESENT_RUNNING' = TRUE
    /\ crashed' = (TRAMPOLINE = 0)
    /\ Set(t, [IdleThread EXCEPT !.pc = "p_get", !.kind = "present", !.sc = sc])
    /\ UNCHANGED <<uh, globals, IMGUI_RENDERER, COMMAND_QUEUE_GUARD, CQECL_RUNNING,
                   RBUF_RUNNING, FENCE_MAX, rend, wndProc, swap, gpuQ>>

\* get_or_init whose initializer runs although the cell is already filled (a
\* cell that does not serialize its initializers).
Present_GetOrInit_Unserialized(t) ==
    /\ Live /\ th[t].pc = "p_get"
    /\ IF IMGUI_RENDER_LOOP = 0
          THEN /\ crashed' = TRUE
               /\ UNCHANGED <<th, IMGUI_RENDERER, rend, wndProc>>
          ELSE /\ Len(rend) < MaxRenderers
               /\ rend' = Append(rend, NewRenderer(th[t].sc))
               /\ wndProc' = "imgui"
               /\ IMGUI_RENDERER' = [some |-> TRUE, ptr |-> Len(rend) + 1, lock |-> FALSE]
               /\ Goto(t, "p_lock")
               /\ UNCHANGED crashed
    /\ UNCHANGED <<uh, budget, globals, COMMAND_QUEUE_GUARD, guards, FENCE_MAX, swap, gpuQ>>

\* IMGUI_RENDERER.get_or_init(|| Mutex::new(Box::new(ImguiRenderer::new(..)))):
\* an empty cell is filled with a new renderer, whose construction installs
\* imgui_wnd_proc on the window and calls the producer's initialize.
Present_GetOrInit(t) ==
    /\ Live /\ th[t].pc = "p_get"
    /\ IF IMGUI_RENDERER.some
          THEN /\ Goto(t, "p_lock")
               /\ UNCHANGED <<IMGUI_RENDERER, rend, wndProc, crashed, mouse>>
          ELSE IF IMGUI_RENDER_LOOP = 0
          THEN /\ crashed' = TRUE
               /\ UNCHANGED <<th, IMGUI_RENDERER, rend, wndProc, mouse>>
          ELSE /\ Len(rend) < MaxRenderers
               /\ rend' = Append(rend, NewRenderer(th[t].sc))
               /\ wndProc' = "imgui"
               /\ mouse' = [mouse EXCEPT !.pos = Unset]
               /\ IMGUI_RENDERER' = [some |-> TRUE, ptr |-> Len(rend) + 1, lock |-> FALSE]
               /\ Goto(t, "p_lock")
               /\ UNCHANGED crashed
    /\ UNCHANGED <<uh, budget, statics, COMMAND_QUEUE_GUARD, guards, FENCE_MAX, swap, gpuQ>>

\* renderer.lock(): the lock byte of the cell is taken and the box it holds
\* dereferenced.
Present_Lock(t) ==
    /\ Live /\ th[t].pc = "p_lock"
    /\ ~IMGUI_RENDERER.lock
    /\ \E fault \in Faults(IMGUI_RENDERER.ptr) :
          IF fault
             THEN Panic
             ELSE /\ IMGUI_RENDERER' = [IMGUI_RENDERER EXCEPT !.lock = TRUE]
                  /\ Set(t, [th[t] EXCEPT !.pc = "p_render", !.cur = IMGUI_RENDERER.ptr])
                  /\ UNCHANGED <<uh, budget, globals, COMMAND_QUEUE_GUARD, guards, FENCE_MAX,
                                 rend, wndProc, swap, gpuQ, crashed>>

\* render without the return on a missing queue.
Present_Render_NoNullCheck(t) ==
    /\ Live /\ th[t].pc = "p_render"
    /\ LET r == th[t].cur
           i == swap[th[t].sc].backIdx
       IN  IF i >= Len(rend[r].frame_contexts) \/ IMGUI_RENDER_LOOP = 0
              THEN /\ crashed' = TRUE
                   /\ UNCHANGED <<th, rend, IMGUI_RENDERER>>
              ELSE /\ rend' = [rend EXCEPT ![r].swap_chain = th[t].sc]
                   /\ UNCHANGED crashed
                   /\ Set(t, [th[t] EXCEPT !.pc = "p_wait", !.idx = i, !.cb = @ + 1])
                   /\ UNCHANGED IMGUI_RENDERER
    /\ UNCHANGED <<uh, budget, globals, COMMAND_QUEUE_GUARD, guards, FENCE_MAX,
                   wndProc, swap, gpuQ>>

\* render calling the producer's render callback twice in a frame.
Present_Render_CallbackTwice(t) ==
    /\ Live /\ th[t].pc = "p_render"
    /\ LET r == th[t].cur
           i == swap[th[t].sc].backIdx
       IN  IF i >= Len(rend[r].frame_contexts) \/
              (rend[r].command_queue # None /\ IMGUI_RENDER_LOOP = 0)
              THEN /\ crashed' = TRUE
                   /\ UNCHANGED <<th, rend, IMGUI_RENDERER>>
              ELSE /\ rend' = [rend EXCEPT ![r].swap_chain = th[t].sc]
                   /\ UNCHANGED crashed
                   /\ IF rend[r].command_queue = None
                         THEN /\ Set(t, [th[t] EXCEPT !.pc = "p_orig", !.idx = i])
                              /\ IMGUI_RENDERER' = [IMGUI_RENDERER EXCEPT !.lock = FALSE]
                         ELSE /\ Set(t, [th[t] EXCEPT !.pc = "p_wait", !.idx = i, !.cb = @ + 2])
                              /\ UNCHANGED IMGUI_RENDERER
    /\ UNCHANGED <<uh, budget, globals, COMMAND_QUEUE_GUARD, guards, FENCE_MAX,
                   wndProc, swap, gpuQ>>

\* ImguiRenderer::render up to the producer's render callback: the swap chain
\* is stored, the FrameContext of the current back buffer indexed (a panic when
\* out of bounds), and a missing queue ends the frame ("Null command queue").
Present_Render(t) ==
    /\ Live /\ th[t].pc = "p_render"
    /\ LET r == th[t].cur
           i == swap[th[t].sc].backIdx
       IN  IF i >= Len(rend[r].frame_contexts) \/
              (rend[r].command_queue # None /\ IMGUI_RENDER_LOOP = 0)
              THEN /\ crashed' = TRUE
                   /\ UNCHANGED <<th, rend, IMGUI_RENDERER, mouse>>
              ELSE /\ rend' = [rend EXCEPT ![r].swap_chain = th[t].sc]
                   /\ mouse' = RefreshMouse(mouse)
                   /\ UNCHANGED crashed
                   /\ IF rend[r].command_queue = None
                         THEN /\ Set(t, [th[t] EXCEPT !.pc = "p_orig", !.idx = i])
                              /\ IMGUI_RENDERER' = [IMGUI_RENDERER EXCEPT !.lock = FALSE]
                         ELSE /\ Set(t, [th[t] EXCEPT !.pc = "p_wait", !.idx = i, !.cb = @ + 1])
                              /\ UNCHANGED IMGUI_RENDERER
    /\ UNCHANGED <<uh, budget, statics, COMMAND_QUEUE_GUARD, guards, FENCE_MAX,
                   wndProc, swap, gpuQ>>

\* FrameContext::wait_fence passes once the fence has completed fence_val.
FenceReached(fc) == ~(fc.completed < fc.fence_val)

\* incr with a counter of the context's own instead of the process-wide one.
Incr_PerContext(fc) == [fc EXCEPT !.fence_val = @ + 1]

\* FrameContext::incr: fence_val takes the value FENCE_MAX.fetch_add(1) returns.
Incr(fc) == [fc EXCEPT !.fence_val = FENCE_MAX]

\* A frame that is given up when render_draw_data fails.
RecordedList_AbortsOnError(drawOk) ==
    IF drawOk THEN <<"reset", "to_render_target", "draw", "to_present", "close">>
              ELSE <<"reset", "to_render_target">>

\* The command list render records after resetting allocator and list: the
\* barrier to render target, the draw data unless render_draw_data failed, the
\* barrier back to present.
RecordedList(drawOk) ==
    <<"reset", "to_render_target">> \o (IF drawOk THEN <<"draw">> ELSE <<>>)
        \o <<"to_present", "close">>

\* The frame recorded without waiting for the context's fence.
Present_WaitRecord_NoWait(t) ==
    /\ Live /\ th[t].pc = "p_wait"
    /\ LET r == th[t].cur
           k == th[t].idx + 1
       IN  \E drawOk \in BOOLEAN :
                 rend' = [rend EXCEPT ![r].frame_contexts[k] = Incr(@),
                                      ![r].command_list = RecordedList(drawOk)]
    /\ FENCE_MAX' = FENCE_MAX + 1
    /\ Goto(t, "p_exec")
    /\ UNCHANGED <<uh, budget, globals, IMGUI_RENDERER, COMMAND_QUEUE_GUARD, guards,
                   wndProc, swap, gpuQ, crashed>>

\* frame_context.wait_fence(); frame_context.incr(); then the allocator and the
\* command list are reset and the frame is recorded and closed.
Present_WaitRecord(t) ==
    /\ Live /\ th[t].pc = "p_wait"
    /\ LET r == th[t].cur
           k == th[t].idx + 1
       IN  /\ FenceReached(rend[r].frame_contexts[k])
           /\ \E drawOk \in BOOLEAN :
                 rend' = [rend EXCEPT ![r].frame_contexts[k] = Incr(@),
                                      ![r].command_list = RecordedList(drawOk)]
    /\ FENCE_MAX' = FENCE_MAX + 1
    /\ Goto(t, "p_exec")
    /\ UNCHANGED <<uh, budget, globals, IMGUI_RENDERER, COMMAND_QUEUE_GUARD, guards,
                   wndProc, swap, gpuQ, crashed>>

\* command_queue.ExecuteCommandLists(..): the call goes through the hooked entry
\* point, so the submit detour is entered on this thread (FenceGuard::new).
Present_Submit(t) ==
    /\ Live /\ th[t].pc = "p_exec"
    /\ CQECL_RUNNING' = TRUE
    /\ Set(t, [th[t] EXCEPT !.pc = "s_guard", !.nested = TRUE,
                            !.q = rend[th[t].cur].command_queue])
    /\ UNCHANGED <<uh, budget, globals, IMGUI_RENDERER, COMMAND_QUEUE_GUARD,
                   PRESENT_RUNNING, RBUF_RUNNING, FENCE_MAX, rend, wndProc, swap,
                   gpuQ, crashed>>

\* command_queue.Signal(&fence, fence_val); render returns and the MutexGuard
\* is dropped.
Present_Signal(t) ==
    /\ Live /\ th[t].pc = "p_signal"
    /\ LET r == th[t].cur
           k == th[t].idx + 1
       IN  gpuQ' = Append(gpuQ, [op |-> "signal", r |-> r, ctx |-> th[t].idx,
                                 val |-> rend[r].frame_contexts[k].fence_val,
                                 list |-> <<>>])
    /\ IMGUI_RENDERER' = [IMGUI_RENDERER EXCEPT !.lock = FALSE]
    /\ Goto(t, "p_orig")
    /\ UNCHANGED <<uh, budget, globals, COMMAND_QUEUE_GUARD, guards, FENCE_MAX, rend,
                   wndProc, swap, crashed>>

\* Present reporting success whatever the original Present handed back.
Present_Orig_DropsResult(t) ==
    /\ Live /\ th[t].pc = "p_orig"
    /\ \E hr \in HResults :
          Set(t, [th[t] EXCEPT !.pc = "p_ret", !.orig = @ + 1, !.oarg = th[t].sc,
                               !.res = hr, !.ret = "S_OK"])
    /\ swap' = [swap EXCEPT ![th[t].sc].backIdx = (@ + 1) % swap[th[t].sc].bufCount]
    /\ UNCHANGED <<uh, budget, globals, IMGUI_RENDERER, COMMAND_QUEUE_GUARD, guards,
                   FENCE_MAX, rend, wndProc, gpuQ, crashed>>

\* trampoline_present(swap_chain, ..): the original Present flips to the next
\* back buffer and hands back its HRESULT.
Present_Orig(t) ==
    /\ Live /\ th[t].pc = "p_orig"
    /\ \E hr \in HResults :
          Set(t, [th[t] EXCEPT !.pc = "p_ret", !.orig = @ + 1, !.oarg = th[t].sc,
                               !.res = hr, !.ret = hr])
    /\ swap' = [swap EXCEPT ![th[t].sc].backIdx = (@ + 1) % swap[th[t].sc].bufCount]
    /\ UNCHANGED <<uh, budget, globals, IMGUI_RENDERER, COMMAND_QUEUE_GUARD, guards,
                   FENCE_MAX, rend, wndProc, gpuQ, crashed>>

\* Present returning without the FenceGuard's drop (the guard leaked).
Present_Return_NoDrop(t) ==
    /\ Live /\ th[t].pc = "p_ret"
    /\ Set(t, IdleThread)
    /\ uh' = [uh EXCEPT !.seen = @ \ {t}]
    /\ UNCHANGED <<budget, globals, IMGUI_RENDERER, COMMAND_QUEUE_GUARD, guards,
                   FENCE_MAX, rend, wndProc, swap, gpuQ, crashed>>

\* Drop of the FenceGuard: PRESENT_RUNNING is stored false, r is returned.
Present_Return(t) ==
    /\ Live /\ th[t].pc = "p_ret"
    /\ PRESENT_RUNNING' = FALSE
    /\ Set(t, IdleThread)
    /\ uh' = [uh EXCEPT !.seen = @ \ {t}]
    /\ UNCHANGED <<budget, globals, IMGUI_RENDERER, COMMAND_QUEUE_GUARD,
                   CQECL_RUNNING, RBUF_RUNNING, FENCE_MAX, rend, wndProc, swap,
                   gpuQ, crashed>>

\* ------------------------------------------------------ ImguiRenderer::cleanup
\* SetWindowLongPtrA(sd.OutputWindow, GWLP_WNDPROC, self.wnd_proc): the window
\* gets the procedure the renderer saved when it was built.
Cleanup(r) == rend[r].wnd_proc

\* COMMAND_QUEUE_GUARD.take() replaces the cell by an empty one. Taken while an
\* initializer runs on another thread, the initializer's mark is overwritten
\* or survives (an unsynchronized write to a static mut).
GuardTaken == {[set |-> FALSE, init |-> i] : i \in {FALSE, COMMAND_QUEUE_GUARD.init}}

\* ---------------------------------------------------- imgui_resize_buffers_impl
\* FenceGuard::new on RBUF_RUNNING, then TRAMPOLINE.get().expect(..).
Resize_Enter(t, sc, n) ==
    /\ Live /\ th[t].pc = "idle" /\ budget > 0
    /\ budget' = budget - 1
    /\ RBUF_RUNNING' = TRUE
    /\ crashed' = (TRAMPOLINE = 0)
    /\ Set(t, [IdleThread EXCEPT !.pc = "r_take", !.kind = "resize", !.sc = sc, !.cnt = n])
    /\ UNCHANGED <<uh, globals, IMGUI_RENDERER, COMMAND_QUEUE_GUARD, CQECL_RUNNING,
                   PRESENT_RUNNING, FENCE_MAX, rend, wndProc, swap, gpuQ>>

\* IMGUI_RENDERER.take(): the mutex is moved out of the cell, lock byte included;
\* the cell is left empty.
Resize_Take(t) ==
    /\ Live /\ th[t].pc = "r_take"
    /\ IF IMGUI_RENDERER.some
          THEN /\ IMGUI_RENDERER' = [IMGUI_RENDERER EXCEPT !.some = FALSE]
               /\ Set(t, [th[t] EXCEPT !.pc = "r_lock", !.mine = IMGUI_RENDERER.ptr,
                                       !.copyLocked = IMGUI_RENDERER.lock])
          ELSE /\ Goto(t, "r_guard")
               /\ UNCHANGED IMGUI_RENDERER
    /\ UNCHANGED <<uh, budget, globals, COMMAND_QUEUE_GUARD, guards, FENCE_MAX, rend,
                   wndProc, swap, gpuQ, crashed>>

\* The resize's teardown without cleanup's SetWindowLongPtrA.
Resize_Cleanup_NoRestore(t) ==
    /\ Live /\ th[t].pc = "r_lock"
    /\ ~th[t].copyLocked
    /\ rend' = [rend EXCEPT ![th[t].mine].swap_chain = th[t].sc,
                            ![th[t].mine].freed = TRUE]
    /\ Goto(t, "r_guard")
    /\ UNCHANGED <<uh, budget, globals, IMGUI_RENDERER, COMMAND_QUEUE_GUARD, guards,
                   FENCE_MAX, swap, gpuQ, crashed, wndProc>>

\* mutex.lock() on the moved mutex, which never opens when it was moved while
\* locked; cleanup(Some(swap_chain)); then the guard and the mutex with its box
\* are dropped at the end of the if-let.
Resize_Cleanup(t) ==
    /\ Live /\ th[t].pc = "r_lock"
    /\ ~th[t].copyLocked
    /\ wndProc' = Cleanup(th[t].mine)
    /\ rend' = [rend EXCEPT ![th[t].mine].swap_chain = th[t].sc,
                            ![th[t].mine].freed = TRUE]
    /\ Goto(t, "r_guard")
    /\ UNCHANGED <<uh, budget, globals, IMGUI_RENDERER, COMMAND_QUEUE_GUARD, guards,
                   FENCE_MAX, swap, gpuQ, crashed>>

\* COMMAND_QUEUE_GUARD.take().
Resize_Guard(t) ==
    /\ Live /\ th[t].pc = "r_guard"
    /\ COMMAND_QUEUE_GUARD' \in GuardTaken
    /\ Goto(t, "r_orig")
    /\ UNCHANGED <<uh, budget, globals, IMGUI_RENDERER, guards, FENCE_MAX, rend,
                   wndProc, swap, gpuQ, crashed>>

\* A resize that reaches the original only after it tore a renderer down.
Resize_Orig_OnlyAfterTeardown(t) ==
    /\ Live /\ th[t].pc = "r_orig"
    /\ IF th[t].mine = 0
          THEN Goto(t, "r_ret") /\ UNCHANGED swap
          ELSE /\ \E hr \in HResults :
                     Set(t, [th[t] EXCEPT !.pc = "r_ret", !.orig = @ + 1,
                                          !.oarg = <<th[t].sc, th[t].cnt>>,
                                          !.res = hr, !.ret = hr])
               /\ swap' = [swap EXCEPT ![th[t].sc] = [bufCount |-> th[t].cnt, backIdx |-> 0]]
    /\ UNCHANGED <<uh, budget, globals, IMGUI_RENDERER, COMMAND_QUEUE_GUARD, guards,
                   FENCE_MAX, rend, wndProc, gpuQ, crashed>>

\* trampoline(swap_chain, buffer_count, ..): the original ResizeBuffers gives
\* the swap chain its new buffer count and starts again at back buffer 0.
Resize_Orig(t) ==
    /\ Live /\ th[t].pc = "r_orig"
    /\ \E hr \in HResults :
          Set(t, [th[t] EXCEPT !.pc = "r_ret", !.orig = @ + 1,
                               !.oarg = <<th[t].sc, th[t].cnt>>, !.res = hr, !.ret = hr])
    /\ swap' = [swap EXCEPT ![th[t].sc] = [bufCount |-> th[t].cnt, backIdx |-> 0]]
    /\ UNCHANGED <<uh, budget, globals, IMGUI_RENDERER, COMMAND_QUEUE_GUARD, guards,
                   FENCE_MAX, rend, wndProc, gpuQ, crashed>>

\* Drop of the FenceGuard: RBUF_RUNNING is stored false.
Resize_Return(t) ==
    /\ Live /\ th[t].pc = "r_ret"
    /\ RBUF_RUNNING' = FALSE
    /\ Set(t, IdleThread)
    /\ UNCHANGED <<uh, budget, globals, IMGUI_RENDERER, COMMAND_QUEUE_GUARD,
                   CQECL_RUNNING, PRESENT_RUNNING, FENCE_MAX, rend, wndProc, swap,
                   gpuQ, crashed>>

\* ---------------------------------------------------------- ImguiDx12Hooks::new
\* new returning the hooks it managed to create when an MhHook::new fails.
Hooks_New_Partial ==
    /\ Live /\ hooks.session < MaxSessions
    /\ hooks.session = 0 \/ uh.pc = "done"
    /\ \E made \in SUBSET AllHooks :
          /\ hooks' = [session |-> hooks.session + 1, created |-> made]
          /\ IMGUI_RENDER_LOOP' = IF IMGUI_RENDER_LOOP = 0 THEN hooks.session + 1
                                                           ELSE IMGUI_RENDER_LOOP
          /\ TRAMPOLINE' = IF TRAMPOLINE = 0 THEN hooks.session + 1 ELSE TRAMPOLINE
    /\ uh' = IdleUnhook
    /\ UNCHANGED <<th, budget, DXGI_DEBUG_ENABLED, wp, gl, submitted, mouse, IMGUI_RENDERER,
                   COMMAND_QUEUE_GUARD, guards, FENCE_MAX, rend, wndProc, swap, gpuQ,
                   crashed>>

\* The client installs: the first time, or again after unhook has returned.
\* Each of the three MhHook::new(..).expect(..) panics when the hook cannot be
\* created; then IMGUI_RENDER_LOOP.get_or_init and TRAMPOLINE.get_or_init fill
\* the cells that are empty, and the hooks are returned.
Hooks_New ==
    /\ Live /\ hooks.session < MaxSessions
    /\ hooks.session = 0 \/ uh.pc = "done"
    /\ \E made \in SUBSET AllHooks :
          IF made # AllHooks
             THEN /\ crashed' = TRUE
                  /\ UNCHANGED <<hooks, IMGUI_RENDER_LOOP, TRAMPOLINE, uh>>
             ELSE /\ hooks' = [session |-> hooks.session + 1, created |-> made]
                  /\ IMGUI_RENDER_LOOP' = IF IMGUI_RENDER_LOOP = 0 THEN hooks.session + 1
                                                                   ELSE IMGUI_RENDER_LOOP
                  /\ TRAMPOLINE' = IF TRAMPOLINE = 0 THEN hooks.session + 1 ELSE TRAMPOLINE
                  /\ uh' = IdleUnhook
                  /\ UNCHANGED crashed
    /\ UNCHANGED <<th, budget, DXGI_DEBUG_ENABLED, wp, gl, submitted, mouse, IMGUI_RENDERER,
                   COMMAND_QUEUE_GUARD, guards, FENCE_MAX, rend, wndProc, swap, gpuQ>>

\* ------------------------------------------------------- ImguiDx12Hooks::unhook
UGoto(l) == uh' = [uh EXCEPT !.pc = l]

Unhook_Enter ==
    /\ Live /\ uh.pc = "idle"
    /\ uh' = [uh EXCEPT !.pc = "u_cqecl",
                        !.seen = {t \in DOMAIN th : th[t].kind = "present"}]
    /\ UNCHANGED <<th, budget, globals, IMGUI_RENDERER, COMMAND_QUEUE_GUARD, guards,
                   FENCE_MAX, rend, wndProc, swap, gpuQ, crashed>>

\* Fence::wait: the spin loop ends on a load that reads false.
Wait(fence) == ~fence

\* CQECL_RUNNING.wait(); PRESENT_RUNNING.wait(); RBUF_RUNNING.wait(), one
\* after the other.
Unhook_Wait ==
    /\ Live
    /\ \/ uh.pc = "u_cqecl" /\ Wait(CQECL_RUNNING) /\ UGoto("u_present")
       \/ uh.pc = "u_present" /\ Wait(PRESENT_RUNNING) /\ UGoto("u_rbuf")
       \/ uh.pc = "u_rbuf" /\ Wait(RBUF_RUNNING) /\ UGoto("u_take")
    /\ UNCHANGED <<th, budget, globals, IMGUI_RENDERER, COMMAND_QUEUE_GUARD, guards,
                   FENCE_MAX, rend, wndProc, swap, gpuQ, crashed>>

\* IMGUI_RENDERER.take().
Unhook_Take ==
    /\ Live /\ uh.pc = "u_take"
    /\ IF IMGUI_RENDERER.some
          THEN /\ IMGUI_RENDERER' = [IMGUI_RENDERER EXCEPT !.some = FALSE]
               /\ uh' = [uh EXCEPT !.pc = "u_lock", !.mine = IMGUI_RENDERER.ptr,
                                    !.copyLocked = IMGUI_RENDERER.lock]
          ELSE /\ UGoto("u_loop")
               /\ UNCHANGED IMGUI_RENDERER
    /\ UNCHANGED <<th, budget, globals, COMMAND_QUEUE_GUARD, guards, FENCE_MAX, rend,
                   wndProc, swap, gpuQ, crashed>>

\* renderer.lock() on the moved mutex; thread::sleep(34 ms);
\* renderer.cleanup(None); the renderer is dropped.
Unhook_Cleanup ==
    /\ Live /\ uh.pc = "u_lock"
    /\ ~uh.copyLocked
    /\ wndProc' = Cleanup(uh.mine)
    /\ rend' = [rend EXCEPT ![uh.mine].freed = TRUE]
    /\ UGoto("u_loop")
    /\ UNCHANGED <<th, budget, globals, IMGUI_RENDERER, COMMAND_QUEUE_GUARD, guards,
                   FENCE_MAX, swap, gpuQ, crashed>>

\* drop(IMGUI_RENDER_LOOP.take()).
Unhook_DropLoop ==
    /\ Live /\ uh.pc = "u_loop"
    /\ IMGUI_RENDER_LOOP' = 0
    /\ UGoto("u_guard")
    /\ UNCHANGED <<th, budget, TRAMPOLINE, DXGI_DEBUG_ENABLED, hooks, wp, gl, submitted, mouse,
                   IMGUI_RENDERER, COMMAND_QUEUE_GUARD, guards, FENCE_MAX, rend,
                   wndProc, swap, gpuQ, crashed>>

\* COMMAND_QUEUE_GUARD.take().
Unhook_Guard ==
    /\ Live /\ uh.pc = "u_guard"
    /\ COMMAND_QUEUE_GUARD' \in GuardTaken
    /\ UGoto("u_debug")
    /\ UNCHANGED <<th, budget, globals, IMGUI_RENDERER, guards, FENCE_MAX, rend,
                   wndProc, swap, gpuQ, crashed>>

\* DXGI_DEBUG_ENABLED.store(false); unhook returns.
Unhook_Return ==
    /\ Live /\ uh.pc = "u_debug"
    /\ DXGI_DEBUG_ENABLED' = FALSE
    /\ UGoto("done")
    /\ UNCHANGED <<th, budget, TRAMPOLINE, IMGUI_RENDER_LOOP, hooks, wp, gl, submitted, mouse,
                   IMGUI_RENDERER, COMMAND_QUEUE_GUARD, guards, FENCE_MAX, rend,
                   wndProc, swap, gpuQ, crashed>>

\* ------------------------------------------------------------------------ GPU
\* The queue executes its oldest entry: a command list, or a Signal that sets
\* the fence's completed value.
GpuStep ==
    /\ Live /\ gpuQ # <<>>
    /\ LET c == Head(gpuQ)
       IN  rend' = IF c.op = "signal"
                      THEN [rend EXCEPT ![c.r].frame_contexts[c.ctx + 1].completed = c.val]
                      ELSE rend
    /\ gpuQ' = Tail(gpuQ)
    /\ UNCHANGED <<th, uh, budget, globals, IMGUI_RENDERER, COMMAND_QUEUE_GUARD, guards,
                   FENCE_MAX, wndProc, swap, crashed>>

\* -------------------------------------------------------------- imgui_wnd_proc
WndUnchanged ==
    UNCHANGED <<th, uh, budget, TRAMPOLINE, IMGUI_RENDER_LOOP, DXGI_DEBUG_ENABLED, hooks, gl, mouse,
                submitted, COMMAND_QUEUE_GUARD, guards, FENCE_MAX, rend, wndProc,
                swap, gpuQ>>

\* imgui_wnd_proc that waits for the renderer's lock instead of trying it.
WndProc_Enter_Blocking ==
    /\ Live /\ wp.pc = "idle" /\ wndProc = "imgui"
    /\ IF IMGUI_RENDERER.some
          THEN /\ ~IMGUI_RENDERER.lock
               /\ IF IMGUI_RENDER_LOOP = 0
                     THEN crashed' = TRUE /\ UNCHANGED <<wp, IMGUI_RENDERER>>
                     ELSE /\ IMGUI_RENDERER' = [IMGUI_RENDERER EXCEPT !.lock = TRUE]
                          /\ wp' = [pc |-> "w_impl", cur |-> IMGUI_RENDERER.ptr, how |-> None]
                          /\ UNCHANGED crashed
          ELSE /\ wp' = [pc |-> "w_ret", cur |-> 0, how |-> "default"]
               /\ UNCHANGED <<IMGUI_RENDERER, crashed>>
    /\ WndUnchanged

\* The window receives a message while imgui_wnd_proc is its procedure:
\* IMGUI_RENDERER.get().map(Mutex::try_lock). With the lock taken the producer
\* is unwrapped for imgui_wnd_proc_impl; with the lock busy or the cell empty
\* the message goes to DefWindowProcW.
WndProc_Enter ==
    /\ Live /\ wp.pc = "idle" /\ wndProc = "imgui"
    /\ IF IMGUI_RENDERER.some /\ ~IMGUI_RENDERER.lock
          THEN IF IMGUI_RENDER_LOOP = 0
                  THEN crashed' = TRUE /\ UNCHANGED <<wp, IMGUI_RENDERER>>
                  ELSE /\ IMGUI_RENDERER' = [IMGUI_RENDERER EXCEPT !.lock = TRUE]
                       /\ wp' = [pc |-> "w_impl", cur |-> IMGUI_RENDERER.ptr, how |-> None]
                       /\ UNCHANGED crashed
          ELSE /\ wp' = [pc |-> "w_ret", cur |-> 0, how |-> "default"]
               /\ UNCHANGED <<IMGUI_RENDERER, crashed>>
    /\ WndUnchanged

\* imgui_wnd_proc_impl: the message updates the overlay's input state and is
\* forwarded to the procedure the renderer saved; the MutexGuard is dropped.
WndProc_Impl ==
    /\ Live /\ wp.pc = "w_impl"
    /\ IMGUI_RENDERER' = [IMGUI_RENDERER EXCEPT !.lock = FALSE]
    /\ wp' = [wp EXCEPT !.pc = "w_ret", !.how = rend[wp.cur].wnd_proc]
    /\ WndUnchanged /\ UNCHANGED crashed

\* imgui_wnd_proc returns the LRESULT.
WndProc_Return ==
    /\ Live /\ wp.pc = "w_ret"
    /\ wp' = IdleWnd
    /\ WndUnchanged /\ UNCHANGED <<IMGUI_RENDERER, crashed>>

\* --------------------------------------- imgui_opengl32_wglSwapBuffers_impl
GlDCs == {"dc1"}
GlViewports == {<<1, 1>>, <<2, 1>>}
GlRects == {<<1, 1>>, <<1, 2>>}

GlUnchanged ==
    UNCHANGED <<th, uh, TRAMPOLINE, IMGUI_RENDER_LOOP, DXGI_DEBUG_ENABLED, submitted, hooks, wp, mouse,
                IMGUI_RENDERER, COMMAND_QUEUE_GUARD, guards, FENCE_MAX, rend,
                wndProc, swap, gpuQ>>

\* The host calls wglSwapBuffers(dc): the detour is entered.
wglSwapBuffers_Enter(dc) ==
    /\ Live /\ gl.pc = "idle" /\ budget > 0
    /\ budget' = budget - 1
    /\ gl' = [gl EXCEPT !.pc = "g_draw", !.dc = dc, !.cb = 0, !.orig = 0,
                        !.oarg = None, !.got = FALSE]
    /\ GlUnchanged /\ UNCHANGED crashed

\* draw(dc): IMGUI_RENDERER.get_or_insert_with builds the renderer when there
\* is none (the producer is unwrapped and initialized, the window procedure is
\* swapped for imgui_wnd_proc and the old one kept), then the renderer is
\* locked and render calls the producer's render callback.
draw ==
    /\ Live /\ gl.pc = "g_draw"
    /\ IF gl.IMGUI_RENDER_LOOP = 0
          THEN crashed' = TRUE /\ UNCHANGED gl
          ELSE /\ UNCHANGED crashed
               /\ IF gl.IMGUI_RENDERER.some
                     THEN gl' = [gl EXCEPT !.pc = "g_reset", !.cb = @ + 1]
                     ELSE gl' = [gl EXCEPT !.pc = "g_reset", !.cb = @ + 1,
                                   !.IMGUI_RENDERER =
                                       [some |-> TRUE, wnd_proc |-> gl.wndProc,
                                        resolution_and_rect |-> None],
                                   !.wndProc = "imgui"]
    /\ GlUnchanged /\ UNCHANGED budget

\* reset that compares the viewport only.
reset_ViewportOnly ==
    /\ Live /\ gl.pc = "g_reset"
    /\ \E busy \in BOOLEAN :
          IF ~gl.IMGUI_RENDERER.some \/ busy
             THEN gl' = [gl EXCEPT !.pc = "g_orig"]
             ELSE LET saved == IF gl.IMGUI_RENDERER.resolution_and_rect = None
                                  THEN <<gl.viewport, gl.rect>>
                                  ELSE gl.IMGUI_RENDERER.resolution_and_rect
                  IN  IF gl.viewport[1] # saved[1][1] \/ gl.viewport[2] # saved[1][2]
                         THEN gl' = [gl EXCEPT !.pc = "g_orig", !.got = TRUE,
                                       !.wndProc = gl.IMGUI_RENDERER.wnd_proc,
                                       !.IMGUI_RENDERER =
                                           [some |-> FALSE, wnd_proc |-> None,
                                            resolution_and_rect |-> None]]
                         ELSE gl' = [gl EXCEPT !.pc = "g_orig", !.got = TRUE,
                                       !.IMGUI_RENDERER.resolution_and_rect = saved]
    /\ GlUnchanged /\ UNCHANGED <<budget, crashed>>

\* reset(dc): nothing without a renderer or when try_lock finds the renderer
\* locked (imgui_wnd_proc holds it on the window's thread; got is try_lock's
\* outcome); otherwise the viewport size and client rectangle are saved if
\* none were, compared with the current ones, and on a difference cleanup
\* restores the window procedure and the renderer is taken.
reset ==
    /\ Live /\ gl.pc = "g_reset"
    /\ \E busy \in BOOLEAN :
          IF ~gl.IMGUI_RENDERER.some \/ busy
             THEN gl' = [gl EXCEPT !.pc = "g_orig"]
             ELSE LET saved == IF gl.IMGUI_RENDERER.resolution_and_rect = None
                                  THEN <<gl.viewport, gl.rect>>
                                  ELSE gl.IMGUI_RENDERER.resolution_and_rect
                  IN  IF gl.viewport[1] # saved[1][1] \/ gl.viewport[2] # saved[1][2]
                         \/ gl.rect[1] # saved[2][1] \/ gl.rect[2] # saved[2][2]
                         THEN gl' = [gl EXCEPT !.pc = "g_orig", !.got = TRUE,
                                       !.wndProc = gl.IMGUI_RENDERER.wnd_proc,
                                       !.IMGUI_RENDERER =
                                           [some |-> FALSE, wnd_proc |-> None,
                                            resolution_and_rect |-> None]]
                         ELSE gl' = [gl EXCEPT !.pc = "g_orig", !.got = TRUE,
                                       !.IMGUI_RENDERER.resolution_and_rect = saved]
    /\ GlUnchanged /\ UNCHANGED <<budget, crashed>>

\* TRAMPOLINE.get().expect(..), then the original wglSwapBuffers(dc).
wglSwapBuffers_Orig ==
    /\ Live /\ gl.pc = "g_orig"
    /\ IF gl.TRAMPOLINE = 0
          THEN crashed' = TRUE /\ UNCHANGED gl
          ELSE /\ UNCHANGED crashed
               /\ gl' = [gl EXCEPT !.pc = "g_ret", !.orig = @ + 1, !.oarg = gl.dc]
    /\ GlUnchanged /\ UNCHANGED budget

\* The detour returns to the host.
wglSwapBuffers_Return ==
    /\ Live /\ gl.pc = "g_ret"
    /\ gl' = [gl EXCEPT !.pc = "idle"]
    /\ GlUnchanged /\ UNCHANGED <<budget, crashed>>

\* The host's window takes another size.
WindowResized(v, r) ==
    /\ Live /\ <<v, r>> # <<gl.viewport, gl.rect>>
    /\ gl' = [gl EXCEPT !.viewport = v, !.rect = r]
    /\ GlUnchanged /\ UNCHANGED <<budget, crashed>>

\* ------------------------------------------------------------- specifications
SwapChains == DOMAIN swap
BufferCounts == 1..MaxBuffers

Detours(t) ==
    \/ \E q \in Queues : ExecuteCommandLists_Enter(t, q)
    \/ ExecuteCommandLists_Guard(t)
    \/ ExecuteCommandLists_Store(t)
    \/ ExecuteCommandLists_Ok(t)
    \/ ExecuteCommandLists_Orig(t)
    \/ ExecuteCommandLists_Return(t)
    \/ \E sc \in SwapChains : Present_Enter(t, sc)
    \/ Present_GetOrInit(t)
    \/ Present_Lock(t)
    \/ Present_Render(t)
    \/ Present_WaitRecord(t)
    \/ Present_Submit(t)
    \/ Present_Signal(t)
    \/ Present_Orig(t)
    \/ Present_Return(t)
    \/ \E sc \in SwapChains, n \in BufferCounts : Resize_Enter(t, sc, n)
    \/ Resize_Take(t)
    \/ Resize_Cleanup(t)
    \/ Resize_Guard(t)
    \/ Resize_Orig(t)
    \/ Resize_Return(t)

Unhook ==
    \/ Unhook_Enter
    \/ Unhook_Wait
    \/ Unhook_Take
    \/ Unhook_Cleanup
    \/ Unhook_DropLoop
    \/ Unhook_Guard
    \/ Unhook_Return

\* Two host threads, the unhooking thread and the GPU.
Next ==
    \/ \E t \in DOMAIN th : Detours(t)
    \/ Unhook
    \/ GpuStep

Spec == Init /\ [][Next]_vars

\* One host thread and the GPU: the host's calls come one after the other.
NextFrame ==
    \/ \E t \in DOMAIN th : Detours(t)
    \/ GpuStep

SpecFrame == InitFrame /\ [][NextFrame]_vars

\* One host thread and the GPU, from the state in which the renderer is built
\* and holds a queue.
InitFrameActive ==
    /\ InitActive
    /\ th = [t \in {"t1"} |-> IdleThread]
    /\ budget = MaxFrameCalls

SpecActive == InitFrameActive /\ [][NextFrame]_vars

SpecMouse == InitMouse /\ [][NextFrame]_vars

\* The names of two swap chains of the host; the Present and ResizeBuffers
\* hooks sit on the entry points every swap chain of the process shares.
TwoSwapChains == {"sc1", "sc2"}

\* One host thread in a process with two swap chains, each with a buffer count
\* and a current back buffer of the host's choosing (the host may have
\* presented before the hooks were installed); no detour has run yet.
InitChains ==
    /\ InitShared
    /\ IMGUI_RENDERER = [some |-> FALSE, ptr |-> 0, lock |-> FALSE]
    /\ COMMAND_QUEUE_GUARD = [set |-> FALSE, init |-> FALSE]
    /\ rend = <<>>
    /\ wndProc = "host"
    /\ swap \in [TwoSwapChains -> [bufCount : BufferCounts, backIdx : 0..(MaxBuffers - 1)]]
    /\ \A sc \in TwoSwapChains : swap[sc].backIdx < swap[sc].bufCount
    /\ submitted = "none"
    /\ th = [t \in {"t1"} |-> IdleThread]
    /\ budget = MaxCalls + 1

SpecChains == InitChains /\ [][NextFrame]_vars

\* The client's installs and unhooks around one host thread and the GPU.
NextInstall ==
    \/ Hooks_New
    \/ \E t \in DOMAIN th : Detours(t)
    \/ hooks.session > 0 /\ Unhook
    \/ GpuStep

SpecInstall == InitUninstalled /\ [][NextInstall]_vars

\* One host thread, the window's thread, the unhooking thread and the GPU.
NextWnd ==
    \/ \E t \in DOMAIN th : Detours(t)
    \/ Unhook
    \/ GpuStep
    \/ WndProc_Enter
    \/ WndProc_Impl
    \/ WndProc_Return

SpecWnd == InitFrame /\ [][NextWnd]_vars

\* One host thread that calls the detours of both hook sets, the host's window
\* and the GPU.
NextHost ==
    \/ \E t \in DOMAIN th : Detours(t)
    \/ GpuStep
    \/ \E dc \in GlDCs : wglSwapBuffers_Enter(dc)
    \/ draw
    \/ reset
    \/ wglSwapBuffers_Orig
    \/ wglSwapBuffers_Return
    \/ \E v \in GlViewports, r \in GlRects : WindowResized(v, r)

SpecHost == InitFrame /\ [][NextHost]_vars

\* InitActive is a state of the program: the frame model reaches it.
FrameReachesActive ==
    /\ IMGUI_RENDERER = [some |-> TRUE, ptr |-> 1, lock |-> FALSE]
    /\ COMMAND_QUEUE_GUARD = [set |-> TRUE, init |-> FALSE]
    /\ rend = << [wnd_proc |-> "host",
                  command_queue |-> "direct1",
                  frame_contexts |-> [i \in 1..MaxBuffers |-> NewFrameContext],
                  command_list |-> <<>>,
                  swap_chain |-> "sc1",
                  freed |-> FALSE] >>
    /\ wndProc = "imgui"
    /\ swap = [sc \in {"sc1"} |-> [bufCount |-> MaxBuffers, backIdx |-> 1 % MaxBuffers]]
    /\ submitted = "direct"
    /\ th["t1"] = IdleThread
    /\ <<CQECL_RUNNING, PRESENT_RUNNING, RBUF_RUNNING>> = <<FALSE, FALSE, FALSE>>
    /\ FENCE_MAX = 0 /\ gpuQ = <<>> /\ ~crashed /\ uh = IdleUnhook
    /\ TRAMPOLINE = 1 /\ IMGUI_RENDER_LOOP = 1 /\ DXGI_DEBUG_ENABLED
    /\ gl = GlInstalled /\ wp = IdleWnd
    /\ hooks = [session |-> 1, created |-> AllHooks] /\ mouse = NoForeground

\* ----------------------------------------------------------------- the claims
\* Thread t is inside the body of the present, submit or resize detour. The
\* renderer's own ExecuteCommandLists runs the submit detour inside present.
InPresent(t) == th[t].kind = "present"
InSubmit(t) == th[t].kind = "submit" \/ th[t].nested
InResize(t) == th[t].kind = "resize"
InDetour(t) == th[t].pc # "idle"

\* unhook has taken the renderer out of IMGUI_RENDERER (or found none) and has
\* not returned yet.
Releasing == uh.pc \in {"u_lock", "u_loop", "u_guard", "u_debug"}

\* C1: from the moment unhook begins releasing resources until it returns,
\* none of CQECL_RUNNING, PRESENT_RUNNING, RBUF_RUNNING is busy.
C1_GuardsIdleWhileReleasing ==
    Releasing => ~CQECL_RUNNING /\ ~PRESENT_RUNNING /\ ~RBUF_RUNNING

\* C2: unhook performs none of its release steps (renderer cleanup, drop of the
\* overlay producer, clearing of the queue-capture guard) while a thread is
\* executing inside a detour body.
C2_NoReleaseDuringCall ==
    [][(uh.pc \in {"u_lock", "u_loop", "u_guard"} /\ uh'.pc # uh.pc)
          => \A t \in DOMAIN th : ~InDetour(t)]_vars

\* C3: unhook does not get past PRESENT_RUNNING.wait() before every present
\* call that was in flight when unhook was called has returned.
C3_WaitsForPresentInFlight ==
    uh.pc \notin {"idle", "u_cqecl", "u_present"} => uh.seen = {}

\* C4: while at least one thread is inside a detour body, that detour's guard
\* reads busy.
C4_BusyWhileInFlight ==
    Live =>
       /\ (\E t \in DOMAIN th : InPresent(t)) => PRESENT_RUNNING
       /\ (\E t \in DOMAIN th : InSubmit(t)) => CQECL_RUNNING
       /\ (\E t \in DOMAIN th : InResize(t)) => RBUF_RUNNING

\* C5: while no call of a detour is in flight, that detour's guard is idle:
\* every exit path of a detour body releases the guard.
C5_IdleWhenNoneInFlight ==
    /\ (\A t \in DOMAIN th : ~InPresent(t)) => ~PRESENT_RUNNING
    /\ (\A t \in DOMAIN th : ~InSubmit(t)) => ~CQECL_RUNNING
    /\ (\A t \in DOMAIN th : ~InResize(t)) => ~RBUF_RUNNING

\* C5 witness: every call has returned, among them a present whose frame was
\* recorded after render_draw_data failed, and the three guards are idle.
C5_Witness ==
    /\ budget = 0
    /\ \A t \in DOMAIN th : th[t].pc = "idle"
    /\ \E i \in 1..Len(gpuQ) : gpuQ[i].op = "exec" /\ gpuQ[i].list = RecordedList(FALSE)
    /\ ~CQECL_RUNNING /\ ~PRESENT_RUNNING /\ ~RBUF_RUNNING

\* The GPU has not yet executed all the work submitted for FrameContext i
\* (0-based) of renderer r: a command list or its fence Signal is still queued.
Pending(r, i) == \E k \in 1..Len(gpuQ) : gpuQ[k].r = r /\ gpuQ[k].ctx = i

\* C6: a FrameContext is not reset and recorded into while the fence value
\* last signaled for it has not been completed by the GPU (a thread about to
\* submit has just reset and recorded the context of its frame).
C6_NoReuseBeforeComplete ==
    \A t \in DOMAIN th : th[t].pc = "p_exec" => ~Pending(th[t].cur, th[t].idx)

C8_NonDirectNeverCaptured ==
    /\ [](\A r \in 1..Len(rend) :
             rend[r].command_queue # None => rend[r].command_queue \in {"direct1", "direct2"})
    /\ [](\A t \in DOMAIN th :
             (th[t].kind = "submit" /\ th[t].q = "compute" /\ th[t].pc = "s_ret")
                => th[t].orig = 1 /\ th[t].oarg = "compute")
    /\ [][\A t \in DOMAIN th :
             (th[t].kind = "submit" /\ th[t].q = "compute" /\ th'[t] # th[t])
                => /\ COMMAND_QUEUE_GUARD' = COMMAND_QUEUE_GUARD
                   /\ rend' = rend
                   /\ crashed' = crashed]_vars

\* C8 witness: a compute queue's submit is about to return while a renderer
\* exists that has no queue and the capture guard is unset.
C8_Witness ==
    \E t \in DOMAIN th :
       /\ th[t].kind = "submit" /\ th[t].q = "compute" /\ th[t].pc = "s_ret"
       /\ th[t].orig = 1
       /\ IMGUI_RENDERER.some /\ rend[IMGUI_RENDERER.ptr].command_queue = None
       /\ ~COMMAND_QUEUE_GUARD.set

\* C9: as long as no direct-class queue has entered the submit detour, no
\* renderer holds a queue and every present skips the overlay frame without a
\* crash: no render callback, no fence wait, no fresh fence value, no reset or
\* recording, no submission, the FrameContexts as built; the original Present
\* is called once and its result returned.
C9_NullQueueSkipsFrame ==
    submitted # "direct" =>
       /\ ~crashed
       /\ FENCE_MAX = 0
       /\ gpuQ = <<>>
       /\ \A r \in 1..Len(rend) :
             /\ rend[r].command_queue = None
             /\ rend[r].command_list = <<>>
             /\ \A k \in 1..Len(rend[r].frame_contexts) :
                   rend[r].frame_contexts[k] = NewFrameContext
       /\ \A t \in DOMAIN th :
             /\ th[t].cb = 0
             /\ th[t].pc \notin {"p_wait", "p_exec", "p_signal"}
             /\ th[t].pc = "p_ret" =>
                   th[t].orig = 1 /\ th[t].oarg = th[t].sc /\ th[t].ret = th[t].res

\* C9 witness: only a non-direct queue has submitted, and a present on the
\* renderer built before is returning the original's result.
C9_Witness ==
    /\ submitted = "nondirect"
    /\ \E t \in DOMAIN th :
          /\ th[t].pc = "p_ret" /\ th[t].cur # 0 /\ th[t].orig = 1
          /\ rend[th[t].cur].command_queue = None
          /\ budget <= MaxFrameCalls - 3

\* C10: a present, submit, resize or wglSwapBuffers detour call never invokes
\* its original twice; when it returns it has invoked it once, with the
\* arguments the call received, and returns the result the original gave; the
\* renderer's own submission reaches the original ExecuteCommandLists once.
C10_OriginalCalledOnce ==
    /\ \A t \in DOMAIN th :
          /\ th[t].orig <= 1 /\ th[t].norig <= 1
          /\ th[t].pc = "p_ret" =>
                th[t].orig = 1 /\ th[t].oarg = th[t].sc /\ th[t].ret = th[t].res
          /\ th[t].pc = "r_ret" =>
                th[t].orig = 1 /\ th[t].oarg = <<th[t].sc, th[t].cnt>>
                               /\ th[t].ret = th[t].res
          /\ (th[t].pc = "s_ret" /\ ~th[t].nested) =>
                th[t].orig = 1 /\ th[t].oarg = th[t].q
          /\ (th[t].pc = "s_ret" /\ th[t].nested) => th[t].norig = 1 /\ th[t].orig = 0
    /\ gl.orig <= 1
    /\ gl.pc = "g_ret" => gl.orig = 1 /\ gl.oarg = gl.dc

\* C10 witness: a present that rendered a frame, its own submission through
\* the submit detour included, is returning the original's failure code after
\* a wglSwapBuffers call that built the OpenGL renderer has returned.
C10_Witness ==
    /\ budget = 0
    /\ \E t \in DOMAIN th :
          /\ th[t].pc = "p_ret" /\ th[t].cb = 1 /\ th[t].norig = 1
          /\ th[t].orig = 1 /\ th[t].ret = "E_FAIL"
    /\ gl.pc = "idle" /\ gl.orig = 1 /\ gl.IMGUI_RENDERER.some

\* Thread u is inside ImguiRenderer::render on renderer r (its FrameContext
\* pool), the renderer's own submission included.
Rendering(u, r) ==
    /\ th[u].cur = r
    /\ th[u].pc \in {"p_render", "p_wait", "p_exec", "p_signal"} \/ th[u].nested

\* C11: a resize detour call that found a renderer takes it out of the cell,
\* restores the window procedure the renderer saved and clears the queue
\* capture before it invokes the original ResizeBuffers, and while it is about
\* to invoke the original the old renderer is dropped and no thread is
\* rendering on it.
C11_TornDownBeforeOriginal ==
    /\ [][\A t \in DOMAIN th :
             /\ (th[t].pc = "r_take" /\ th'[t].pc = "r_lock") => ~IMGUI_RENDERER'.some
             /\ (th[t].pc = "r_lock" /\ th'[t].pc = "r_guard") =>
                   wndProc' = rend[th[t].mine].wnd_proc
             /\ (th[t].mine # 0 /\ th'[t].pc = "r_orig" /\ th[t].pc # "r_orig") =>
                   ~COMMAND_QUEUE_GUARD'.set]_vars
    /\ [](\A t \in DOMAIN th :
             (th[t].pc = "r_orig" /\ th[t].mine # 0) =>
                /\ rend[th[t].mine].freed
                /\ \A u \in DOMAIN th : ~Rendering(u, th[t].mine))

\* C12: when a resize detour call returns, the window's procedure is the one
\* the most recent activation saved and no renderer and no queue capture is
\* left; the present that follows builds a new renderer with no queue, fresh
\* FrameContexts and as many of them as the swap chain has buffers then.
C12_ResizeRestoresAndRebuilds ==
    /\ [](\A t \in DOMAIN th :
             th[t].pc = "r_ret" =>
                /\ ~IMGUI_RENDERER.some /\ ~COMMAND_QUEUE_GUARD.set
                /\ Len(rend) > 0 => wndProc = rend[Len(rend)].wnd_proc /\ rend[Len(rend)].freed)
    /\ [][\A t \in DOMAIN th :
             (th[t].pc = "p_get" /\ th'[t].pc = "p_lock" /\ ~IMGUI_RENDERER.some) =>
                /\ IMGUI_RENDERER'.some /\ IMGUI_RENDERER'.ptr = Len(rend) + 1
                /\ Len(rend') = Len(rend) + 1
                /\ LET n == rend'[Len(rend')]
                   IN  /\ n.command_queue = None /\ ~n.freed
                       /\ Len(n.frame_contexts) = swap[th[t].sc].bufCount
                       /\ \A k \in 1..Len(n.frame_contexts) :
                             n.frame_contexts[k] = NewFrameContext
                       /\ n.wnd_proc = wndProc /\ wndProc' = "imgui"]_vars

\* C12 witness: after a resize to one buffer tore the first renderer down, a
\* present has built the second one with a pool of one FrameContext.
C12_Witness ==
    /\ Len(rend) = 2 /\ rend[1].freed /\ Len(rend[1].frame_contexts) = MaxBuffers
    /\ Len(rend[2].frame_contexts) = 1 /\ swap["sc1"].bufCount = 1
    /\ rend[2].wnd_proc = "host" /\ wndProc = "imgui"
    /\ \E t \in DOMAIN th : th[t].pc = "p_lock" /\ IMGUI_RENDERER.ptr = 2

\* The resize detour call of thread t found no renderer in the cell.
FoundNone(t) ==
    /\ th[t].kind = "resize"
    /\ \/ th[t].pc = "r_take" /\ ~IMGUI_RENDERER.some
       \/ th[t].pc \in {"r_guard", "r_orig", "r_ret"} /\ th[t].mine = 0

\* C13: a resize detour call that finds no renderer changes no renderer, not
\* the cell and not the window's procedure in any of its steps, and has
\* invoked the original ResizeBuffers once with its arguments when it returns.
C13_ResizeWithoutRenderer ==
    /\ [][\A t \in DOMAIN th :
             (FoundNone(t) /\ th'[t] # th[t]) =>
                /\ rend' = rend /\ IMGUI_RENDERER' = IMGUI_RENDERER /\ wndProc' = wndProc
                /\ crashed' = crashed]_vars
    /\ [](\A t \in DOMAIN th :
             (FoundNone(t) /\ th[t].pc = "r_ret") =>
                th[t].orig = 1 /\ th[t].oarg = <<th[t].sc, th[t].cnt>>
                               /\ th[t].ret = th[t].res)

\* C13 witness: the first call of all is a resize to one buffer; it is about to
\* return with nothing built and the window's procedure still the host's.
C13_Witness ==
    \E t \in DOMAIN th :
       /\ FoundNone(t) /\ th[t].pc = "r_ret" /\ th[t].orig = 1 /\ th[t].cnt = 1
       /\ rend = <<>> /\ ~IMGUI_RENDERER.some /\ wndProc = "host"
       /\ swap[th[t].sc].bufCount = 1

\* A closed command list that takes the back buffer to the render target
\* state first and back to the present state last.
FrameList(l) ==
    /\ Len(l) >= 4
    /\ l[1] = "reset" /\ l[2] = "to_render_target"
    /\ l[Len(l) - 1] = "to_present" /\ l[Len(l)] = "close"
    /\ \A k \in 3..(Len(l) - 2) : l[k] = "draw"

\* C14: a frame that passed the null-queue check is recorded with both
\* barriers and closed whether or not render_draw_data failed, is submitted
\* once on the captured queue, and its fence value is signaled on that
\* FrameContext before render returns.
C14_FrameAlwaysSubmitted ==
    /\ [](\A t \in DOMAIN th :
             /\ (th[t].pc = "p_exec" \/ th[t].nested) =>
                   /\ FrameList(rend[th[t].cur].command_list)
                   /\ rend[th[t].cur].command_queue # None
             /\ th[t].nested => th[t].q = rend[th[t].cur].command_queue
             /\ (th[t].pc \in {"p_signal", "p_orig", "p_ret"} /\ th[t].cb = 1) =>
                   th[t].norig = 1)
    /\ [][\A t \in DOMAIN th :
             /\ (th[t].nested /\ th[t].pc = "s_orig" /\ th'[t].pc = "s_ret") =>
                   gpuQ' = Append(gpuQ, [op |-> "exec", r |-> th[t].cur, ctx |-> th[t].idx,
                                         val |-> 0,
                                         list |-> rend[th[t].cur].command_list])
             /\ (th[t].pc = "p_signal" /\ th'[t].pc = "p_orig") =>
                   gpuQ' = Append(gpuQ,
                                  [op |-> "signal", r |-> th[t].cur, ctx |-> th[t].idx,
                                   val |-> rend[th[t].cur].frame_contexts[th[t].idx + 1].fence_val,
                                   list |-> <<>>])
             /\ (th[t].pc = "p_wait" /\ th'[t] # th[t]) => th'[t].pc = "p_exec"
             /\ (th[t].pc = "p_exec" /\ th'[t] # th[t]) => th'[t].nested]_vars

\* C14 witness: a frame whose draw-data recording failed has been submitted
\* and signaled, and the present is about to call the original.
C14_Witness ==
    \E t \in DOMAIN th :
       /\ th[t].pc = "p_orig" /\ th[t].cb = 1 /\ th[t].norig = 1
       /\ Len(gpuQ) >= 2
       /\ gpuQ[Len(gpuQ) - 1].op = "exec"
       /\ gpuQ[Len(gpuQ) - 1].list = <<"reset", "to_render_target", "to_present", "close">>
       /\ gpuQ[Len(gpuQ)].op = "signal" /\ gpuQ[Len(gpuQ)].ctx = th[t].idx

\* The calls of the producer's initialize so far: ImguiRenderer::new makes one
\* for every renderer it builds.
InitializeCalls == Len(rend)

\* C15: the producer's initialize is never called a second time, and it has
\* been called when a render callback is called.
C15_InitializeOnce ==
    /\ InitializeCalls <= 1
    /\ \A t \in DOMAIN th : th[t].cb > 0 => InitializeCalls >= 1

\* C16 as stated: a present that is about to call the original Present has
\* called the render callback once and submitted one frame.
C16_RendersEveryPresent ==
    \A t \in DOMAIN th :
       (th[t].kind = "present" /\ th[t].pc = "p_orig") => th[t].cb = 1 /\ th[t].norig = 1

\* C16 amended: a present whose renderer holds a captured queue calls the
\* render callback once and submits one frame on the FrameContext of the
\* current back buffer, before it calls the original Present; a present whose
\* renderer holds no queue calls no render callback and submits nothing.
C16_RendersOnceWithQueue ==
    /\ [](\A t \in DOMAIN th :
             th[t].kind = "present" =>
                /\ th[t].cb <= 1 /\ th[t].norig <= th[t].cb
                /\ th[t].pc \in {"p_orig", "p_ret"} => th[t].norig = th[t].cb
                /\ th[t].pc \notin {"p_ret"} => th[t].orig = 0)
    /\ [][\A t \in DOMAIN th :
             (th[t].pc = "p_render" /\ th'[t] # th[t]) =>
                /\ th'[t].idx = swap[th[t].sc].backIdx
                /\ IF rend[th[t].cur].command_queue # None
                      THEN th'[t].cb = 1 /\ th'[t].pc = "p_wait"
                      ELSE th'[t].cb = 0 /\ th'[t].pc = "p_orig"]_vars

\* C16 witness: a present has rendered one frame on the second back buffer's
\* FrameContext and is about to call the original Present.
C16_Witness ==
    \E t \in DOMAIN th :
       /\ th[t].kind = "present" /\ th[t].pc = "p_orig"
       /\ th[t].cb = 1 /\ th[t].norig = 1 /\ th[t].orig = 0 /\ th[t].idx = 1

\* ---------------------------------------------------------------------- C17
\* C17: for every message delivered to imgui_wnd_proc the procedure the window
\* had before the hook is invoked, also when the renderer's lock is contended
\* and when there is no renderer; no message is swallowed.
C17_OriginalAlwaysInvoked ==
    wp.pc = "w_ret" => wp.how = "host"

\* ---------------------------------------------------------------------- C18
\* C18: imgui_wnd_proc never waits for the renderer's lock. A message can
\* always be taken; with the lock held or the renderer absent it is handled by
\* DefWindowProcW without touching the renderer, and the procedure returns;
\* with the lock taken the procedure goes on to its implementation, which
\* always returns and releases the lock.
C18_WndProcNeverWaits ==
    /\ [](Live /\ wp.pc = "idle" /\ wndProc = "imgui" => ENABLED WndProc_Enter)
    /\ [](Live /\ wp.pc = "w_impl" => ENABLED WndProc_Impl)
    /\ [](Live /\ wp.pc = "w_ret" => ENABLED WndProc_Return)
    /\ [][wp.pc = "idle" /\ wp' # wp =>
            IF IMGUI_RENDERER.some /\ ~IMGUI_RENDERER.lock
              THEN wp'.pc = "w_impl" /\ IMGUI_RENDERER'.lock
              ELSE /\ wp'.pc = "w_ret" /\ wp'.how = "default"
                   /\ IMGUI_RENDERER' = IMGUI_RENDERER /\ rend' = rend]_vars

\* A message was handled by DefWindowProcW while a present held the lock.
C18_Witness ==
    /\ wp.pc = "w_ret" /\ wp.how = "default"
    /\ IMGUI_RENDERER.some /\ IMGUI_RENDERER.lock
    /\ \E t \in DOMAIN th : th[t].pc = "p_exec" /\ th[t].cur = IMGUI_RENDERER.ptr

\* ---------------------------------------------------------------------- C19
\* The procedure captured by the most recent activation.
CapturedWndProc == IF Len(rend) = 0 THEN "host" ELSE rend[Len(rend)].wnd_proc

\* C19: at the moment unhook returns, after any interleaving with host calls,
\* IMGUI_RENDERER holds no renderer, the capture guard is unset, the producer
\* is dropped, the DXGI debug flag is off and the window's procedure is the one
\* captured at the most recent activation.
C19_UnhookLeavesNothing ==
    [][uh.pc = "u_debug" /\ uh'.pc = "done" =>
          /\ ~IMGUI_RENDERER'.some
          /\ ~COMMAND_QUEUE_GUARD'.set
          /\ IMGUI_RENDER_LOOP' = 0
          /\ ~DXGI_DEBUG_ENABLED'
          /\ wndProc' = CapturedWndProc']_vars

\* ---------------------------------------------------------------------- C20
\* The renderers that were built and not dropped.
LiveRenderers == {r \in 1..Len(rend) : ~rend[r].freed}

\* The threads inside a call that reads or writes renderer r across steps:
\* presents inside render, and the window's thread inside imgui_wnd_proc_impl.
Accessors(r) ==
    {u \in DOMAIN th : Rendering(u, r)}
        \cup (IF wp.pc = "w_impl" /\ wp.cur = r THEN {"wnd"} ELSE {})

\* C20: at most one renderer is live at any time, and no two threads access a
\* renderer's data at the same time: no two threads are inside calls on the
\* same renderer, and a renderer is torn down (cleanup and drop, by resize or
\* unhook) only while no thread is inside a call on it.
C20_OneRendererOneAccessor ==
    /\ [](Cardinality(LiveRenderers) <= 1)
    /\ [](\A r \in 1..Len(rend) : Cardinality(Accessors(r)) <= 1)
    /\ [][\A r \in 1..Len(rend) :
             ~rend[r].freed /\ rend'[r].freed => Accessors(r) = {}]_vars

\* ---------------------------------------------------------------------- C21
\* The FrameContexts of all renderers built so far.
Contexts ==
    UNION {{<<r, k>> : k \in DOMAIN rend[r].frame_contexts} : r \in 1..Len(rend)}

\* Thread t is in a frame past FrameContext::incr.
Allocated(t) == th[t].pc \in {"p_exec", "p_signal"} \/ th[t].nested

\* C21: every value FrameContext::incr allocates is the counter's value at that
\* moment, above every value any context of any renderer (rebuilt or not) was
\* given before and every value in flight on the queue; the counter only
\* grows, by one per allocation; no context's fence_val ever decreases or
\* changes outside an allocation; and the value a frame signals is the one its
\* context was given in that frame.
C21_FenceValuesOrdered ==
    /\ [](\A c \in Contexts :
             LET v == rend[c[1]].frame_contexts[c[2]].fence_val
             IN  v <= FENCE_MAX /\ (FENCE_MAX > 0 => v < FENCE_MAX))
    /\ [](\A i \in 1..Len(gpuQ) : gpuQ[i].op = "signal" => gpuQ[i].val < FENCE_MAX)
    /\ [][/\ FENCE_MAX' \in {FENCE_MAX, FENCE_MAX + 1}
          /\ \A c \in Contexts :
                LET old == rend[c[1]].frame_contexts[c[2]].fence_val
                    new == rend'[c[1]].frame_contexts[c[2]].fence_val
                IN  /\ new >= old
                    /\ new # old => new = FENCE_MAX /\ FENCE_MAX' = FENCE_MAX + 1
          /\ FENCE_MAX' # FENCE_MAX =>
                \E t \in DOMAIN th :
                    /\ th[t].pc = "p_wait" /\ th'[t].pc = "p_exec"
                    /\ rend'[th[t].cur].frame_contexts[th[t].idx + 1].fence_val = FENCE_MAX
          /\ \A t \in DOMAIN th :
                /\ Allocated(t) /\ Allocated(t)' =>
                      rend'[th[t].cur].frame_contexts[th[t].idx + 1].fence_val
                          = rend[th[t].cur].frame_contexts[th[t].idx + 1].fence_val
                /\ th[t].pc = "p_signal" /\ th'[t].pc = "p_orig" =>
                      /\ Len(gpuQ') = Len(gpuQ) + 1
                      /\ gpuQ'[Len(gpuQ')].op = "signal"
                      /\ gpuQ'[Len(gpuQ')].val
                            = rend[th[t].cur].frame_contexts[th[t].idx + 1].fence_val]_vars

\* A renderer rendered a frame with value 0, was torn down by a resize, and
\* the renderer built after it rendered a frame with value 1.
C21_Witness ==
    /\ Len(rend) = 2 /\ rend[1].freed /\ FENCE_MAX = 2
    /\ \E k \in DOMAIN rend[1].frame_contexts : rend[1].frame_contexts[k].fence_val = 0
    /\ \E t \in DOMAIN th :
          /\ th[t].pc = "p_orig" /\ th[t].cur = 2
          /\ rend[2].frame_contexts[th[t].idx + 1].fence_val = 1
    /\ gpuQ # <<>> /\ gpuQ[Len(gpuQ)].op = "signal" /\ gpuQ[Len(gpuQ)].val = 1

\* ---------------------------------------------------------------------- C22
\* C22: when unhook returns the producer, the debug flag and the stored
\* trampolines are reset, and an install that follows an unhook runs with the
\* trampolines and the producer of that install.
C22_NothingSurvivesUnhook ==
    [][/\ uh.pc = "u_debug" /\ uh'.pc = "done" =>
             TRAMPOLINE' = 0 /\ IMGUI_RENDER_LOOP' = 0 /\ ~DXGI_DEBUG_ENABLED'
       /\ hooks'.session # hooks.session =>
             TRAMPOLINE' = hooks'.session /\ IMGUI_RENDER_LOOP' = hooks'.session]_vars

\* ---------------------------------------------------------------------- C23
\* The FrameContext thread t renders through.
FrameCtx(t) == rend[th[t].cur].frame_contexts[th[t].idx + 1]

\* C23: within a rendered frame the steps come in this order. The frame is
\* recorded only once the fence of its context has completed the value the
\* context last signalled; then the context gets the fresh value; the list is
\* reset and holds the barrier to render target, the draw data (when
\* render_draw_data recorded it) and the barrier back to present, and is closed;
\* nothing is submitted before that; then the closed list is submitted, once;
\* then, and only after the submission, the fresh value is signalled.
C23_FrameStepsInOrder ==
    /\ [](\A t \in DOMAIN th :
            /\ th[t].pc \in {"p_render", "p_wait", "p_exec"} => th[t].norig = 0
            /\ th[t].pc = "p_signal" => th[t].norig = 1)
    /\ [][\A t \in DOMAIN th :
            /\ th[t].pc = "p_wait" /\ th'[t].pc # "p_wait" =>
                  /\ th'[t].pc = "p_exec"
                  /\ FrameCtx(t).completed >= FrameCtx(t).fence_val
                  /\ FrameCtx(t)'.fence_val = FENCE_MAX
                  /\ FENCE_MAX' = FENCE_MAX + 1
                  /\ rend'[th[t].cur].command_list \in
                        {<<"reset", "to_render_target", "draw", "to_present", "close">>,
                         <<"reset", "to_render_target", "to_present", "close">>}
                  /\ gpuQ' = gpuQ
            /\ th[t].pc = "p_exec" /\ th'[t].pc # "p_exec" =>
                  th'[t].nested /\ th'[t].pc = "s_guard" /\ gpuQ' = gpuQ /\ rend' = rend
            /\ th[t].nested /\ th[t].pc = "s_orig" /\ th'[t].pc # "s_orig" =>
                  gpuQ' = Append(gpuQ, [op |-> "exec", r |-> th[t].cur, ctx |-> th[t].idx,
                                        val |-> 0, list |-> rend[th[t].cur].command_list])
            /\ th[t].nested /\ ~th'[t].nested => th'[t].pc = "p_signal" /\ gpuQ' = gpuQ
            /\ th[t].pc = "p_signal" /\ th'[t].pc # "p_signal" =>
                  /\ th'[t].pc = "p_orig"
                  /\ gpuQ' = Append(gpuQ, [op |-> "signal", r |-> th[t].cur,
                                           ctx |-> th[t].idx, val |-> FrameCtx(t).fence_val,
                                           list |-> <<>>])]_vars

\* A frame is about to be recorded on a context whose previous frame the GPU
\* has not finished: the context's fence is behind its fence_val.
C23_Witness ==
    \E t \in DOMAIN th :
        /\ th[t].pc = "p_wait"
        /\ FrameCtx(t).completed < FrameCtx(t).fence_val
        /\ \E i \in 1..Len(gpuQ) :
              gpuQ[i].op = "signal" /\ gpuQ[i].val = FrameCtx(t).fence_val

\* ---------------------------------------------------------------------- C24
\* A submit detour call of the host from a queue of the direct class.
DirectSubmit(t) == th[t].kind = "submit" /\ QueueType(th[t].q) = 0

\* C24: a direct queue's submit that finds no renderer captures nothing and
\* leaves the capture guard as it was, and returns with the guard unset; a
\* direct queue's submit that returns while a renderer exists leaves that
\* renderer holding a queue and the guard set (the first such submit after
\* the activation is the one that captures).
C24_CaptureNeedsRenderer ==
    /\ [][\A t \in DOMAIN th :
            (DirectSubmit(t) /\ th[t].pc = "s_guard" /\ ~IMGUI_RENDERER.some
               /\ th'[t] # th[t])
              => /\ th'[t].pc = "s_orig"
                 /\ COMMAND_QUEUE_GUARD' = COMMAND_QUEUE_GUARD
                 /\ rend' = rend]_vars
    /\ [](\A t \in DOMAIN th :
            DirectSubmit(t) /\ th[t].pc = "s_ret" =>
               IF IMGUI_RENDERER.some
                  THEN /\ rend[IMGUI_RENDERER.ptr].command_queue # None
                       /\ COMMAND_QUEUE_GUARD.set
                  ELSE ~COMMAND_QUEUE_GUARD.set)

\* A direct queue's submit has called the original and is about to return
\* while no renderer was ever built: nothing is captured, the guard is unset.
C24_Witness ==
    \E t \in DOMAIN th :
        /\ DirectSubmit(t) /\ th[t].pc = "s_ret" /\ th[t].orig = 1
        /\ rend = <<>> /\ ~IMGUI_RENDERER.some
        /\ COMMAND_QUEUE_GUARD = [set |-> FALSE, init |-> FALSE]

\* ---------------------------------------------------------------------- C25
\* C25: a renderer is constructed only by a present detour call, in its
\* get_or_init, and only when the cell is empty; that step constructs exactly
\* one renderer and fills the cell with it, so that of several presents that
\* arrive together one constructs and the others find the cell filled; and the
\* cell never gets filled without a construction.
C25_OnlyPresentConstructs ==
    [][/\ rend' # rend /\ Len(rend') # Len(rend) =>
             /\ Len(rend') = Len(rend) + 1
             /\ ~IMGUI_RENDERER.some
             /\ IMGUI_RENDERER' = [some |-> TRUE, ptr |-> Len(rend'), lock |-> FALSE]
             /\ \E t \in DOMAIN th :
                   /\ th[t].kind = "present" /\ ~th[t].nested
                   /\ th[t].pc = "p_get" /\ th'[t].pc = "p_lock"
                   /\ \A u \in DOMAIN th \ {t} : th'[u] = th[u]
             /\ uh' = uh /\ wp' = wp
       /\ ~IMGUI_RENDERER.some /\ IMGUI_RENDERER'.some => Len(rend') = Len(rend) + 1]_vars

\* Two presents arrived together before any renderer existed; both are past
\* get_or_init and one renderer was built.
C25_Witness ==
    /\ \A t \in DOMAIN th : th[t].kind = "present" /\ th[t].pc = "p_lock"
    /\ Cardinality(DOMAIN th) = 2
    /\ Len(rend) = 1 /\ rend[1].command_queue = None /\ ~rend[1].freed
    /\ IMGUI_RENDERER = [some |-> TRUE, ptr |-> 1, lock |-> FALSE]

\* ---------------------------------------------------------------------- C26
\* C26: while no trampoline is registered, a detour that reaches its
\* TRAMPOLINE.get().expect(..) panics: no detour call returns, none has called
\* an original function, and none has captured a queue, built a renderer, torn
\* one down or changed the window's procedure.
C26_PanicsWithoutTrampoline ==
    /\ [](TRAMPOLINE = 0 =>
            /\ rend = <<>> /\ ~IMGUI_RENDERER.some
            /\ COMMAND_QUEUE_GUARD = [set |-> FALSE, init |-> FALSE]
            /\ wndProc = "host" /\ gpuQ = <<>> /\ FENCE_MAX = 0
            /\ \A t \in DOMAIN th :
                  /\ th[t].orig = 0 /\ th[t].ret = None
                  /\ ~crashed => th[t].pc \in {"idle", "s_guard", "s_orig"})
    /\ [][TRAMPOLINE = 0 /\ TRAMPOLINE' = 0 =>
            \A t \in DOMAIN th :
               /\ th[t].pc = "idle" /\ th'[t].kind \in {"present", "resize"} => crashed'
               /\ th[t].pc = "s_orig" /\ th'[t] # th[t] => crashed'
               /\ th[t].pc # "idle" => th'[t].pc # "idle"]_vars

\* A direct queue's submit ran into the missing trampoline: the process has
\* panicked with the call at its expect, nothing captured.
C26_Witness ==
    /\ crashed /\ TRAMPOLINE = 0 /\ hooks.session = 0
    /\ \E t \in DOMAIN th : DirectSubmit(t) /\ th[t].pc = "s_orig" /\ th[t].orig = 0
    /\ COMMAND_QUEUE_GUARD = [set |-> FALSE, init |-> FALSE]

\* ---------------------------------------------------------------------- C27
\* C27: ImguiDx12Hooks::new returns hooks only with all three MhHooks created,
\* the producer registered and the trampolines registered; a session never
\* exists with fewer hooks or without trampolines.
C27_InstallAllOrAbort ==
    /\ [](hooks.session > 0 => hooks.created = AllHooks /\ TRAMPOLINE # 0)
    /\ [][hooks' # hooks =>
             /\ hooks'.session = hooks.session + 1
             /\ hooks'.created = {"present", "submit", "resize"}
             /\ IMGUI_RENDER_LOOP' # 0 /\ TRAMPOLINE' # 0
             /\ ~crashed']_vars

\* The first install has returned: three hooks, producer and trampolines of
\* that install, no detour called yet.
C27_Witness ==
    /\ hooks = [session |-> 1, created |-> {"present", "submit", "resize"}]
    /\ TRAMPOLINE = 1 /\ IMGUI_RENDER_LOOP = 1 /\ ~crashed
    /\ budget = MaxCalls + 1 /\ uh.pc = "idle"

\* ---------------------------------------------------------------------- C28
\* The windows that are children of w.
ChildrenOf(w) == {c \in Windows : ParentOf(c) = w}

\* C28: with the OS calls succeeding, a present's render refreshes the
\* overlay's mouse position (sets it to the cursor's client position) exactly
\* when the foreground window is the output window or one of the output
\* window's children; with any other window in the foreground, a parent of the
\* output window included, the mouse position is left as it was.
C28_MouseLiveOnHostOrChild ==
    [][\A t \in DOMAIN th :
          (/\ th[t].pc = "p_render" /\ th'[t].pc \in {"p_wait", "p_orig"}
           /\ mouse.gcr /\ mouse.gcp /\ mouse.stc) =>
             IF mouse.fg = OutputWindow \/ mouse.fg \in ChildrenOf(OutputWindow)
               THEN mouse'.pos = ScreenToClient(mouse.cursor)
               ELSE mouse'.pos = mouse.pos]_vars

\* ---------------------------------------------------------------------- C29
\* The values reset compares against: the saved ones, or the current ones when
\* none are saved yet (get_or_insert).
GlSaved ==
    IF gl.IMGUI_RENDERER.resolution_and_rect = None
       THEN <<gl.viewport, gl.rect>>
       ELSE gl.IMGUI_RENDERER.resolution_and_rect

\* The current viewport width or height or the client rectangle's right or
\* bottom differs from the saved one.
GlDiffers ==
    \/ gl.viewport[1] # GlSaved[1][1] \/ gl.viewport[2] # GlSaved[1][2]
    \/ gl.rect[1] # GlSaved[2][1] \/ gl.rect[2] # GlSaved[2][2]

\* reset dropped the renderer and restored the procedure it had saved.
GlInvalidated ==
    /\ ~gl'.IMGUI_RENDERER.some
    /\ gl'.wndProc = gl.IMGUI_RENDERER.wnd_proc

\* reset kept the renderer and the window's procedure.
GlKept ==
    /\ gl'.IMGUI_RENDERER.some = gl.IMGUI_RENDERER.some
    /\ gl'.IMGUI_RENDERER.wnd_proc = gl.IMGUI_RENDERER.wnd_proc
    /\ gl'.wndProc = gl.wndProc

\* C29 as stated: after each swap's draw, reset invalidates the renderer
\* exactly when the current sizes differ from the saved ones, and otherwise
\* keeps the renderer and the saved values.
C29_ResetExactlyOnChange ==
    [][gl.pc = "g_reset" /\ gl'.pc = "g_orig" /\ gl.IMGUI_RENDERER.some =>
          IF GlDiffers
             THEN GlInvalidated
             ELSE /\ GlKept
                  /\ gl.IMGUI_RENDERER.resolution_and_rect # None =>
                        gl'.IMGUI_RENDERER.resolution_and_rect =
                            gl.IMGUI_RENDERER.resolution_and_rect]_vars

\* C29 amended: a reset whose try_lock got the renderer's lock invalidates the
\* renderer exactly when the current sizes differ from the saved ones (the
\* values saved by the first reset that got the lock), and otherwise keeps the
\* renderer with the saved values; a reset that did not get the lock changes
\* nothing; and the draw of the swap after an invalidation builds a renderer
\* again, with nothing saved.
C29_ResetOnChangeWhenLocked ==
    [][/\ gl.pc = "g_reset" /\ gl'.pc = "g_orig" /\ gl.IMGUI_RENDERER.some =>
            IF gl'.got
               THEN IF GlDiffers
                       THEN GlInvalidated
                       ELSE GlKept /\ gl'.IMGUI_RENDERER.resolution_and_rect = GlSaved
               ELSE gl'.IMGUI_RENDERER = gl.IMGUI_RENDERER /\ gl'.wndProc = gl.wndProc
       /\ gl.pc = "g_draw" /\ gl'.pc = "g_reset" /\ ~gl.IMGUI_RENDERER.some =>
            /\ gl'.IMGUI_RENDERER = [some |-> TRUE, wnd_proc |-> gl.wndProc,
                                     resolution_and_rect |-> None]
            /\ gl'.wndProc = "imgui"]_vars

\* A swap whose reset got the lock and found the window at another size than
\* the one saved by an earlier swap: the renderer that drew this swap is
\* dropped and the window has the host's procedure again.
C29_Witness ==
    /\ gl.pc = "g_orig" /\ gl.cb = 1 /\ gl.got
    /\ ~gl.IMGUI_RENDERER.some /\ gl.wndProc = "host"
    /\ <<gl.viewport, gl.rect>> # <<<<1, 1>>, <<1, 1>>>>

\* ---------------------------------------------------------------------- C30
\* The current renderer holds a command queue.
RendererHasQueue ==
    IMGUI_RENDERER.some /\ rend[IMGUI_RENDERER.ptr].command_queue # None

\* No detour call and no unhook is in progress.
BetweenCalls ==
    /\ \A t \in DOMAIN th : th[t].pc = "idle"
    /\ uh.pc \in {"idle", "done"}

\* C30: COMMAND_QUEUE_GUARD is set if and only if a renderer exists whose
\* command_queue is set: the guard is never set while the current renderer has
\* no queue, and a renderer never holds a queue while the guard is unset.  It
\* is stated here for the states between calls, where no detour or unhook is
\* halfway through its updates of the two statics.
C30_GuardIffRendererHasQueue ==
    BetweenCalls /\ ~crashed => (COMMAND_QUEUE_GUARD.set <=> RendererHasQueue)

\* ---------------------------------------------------------------------- C31
\* C31: the submit detour entered from render's own ExecuteCommandLists, on the
\* thread that holds the renderer lock, always takes the short-circuit of a set
\* COMMAND_QUEUE_GUARD: it never runs the capture closure, so it never asks for
\* the renderer lock (which its own thread holds and would never release).
C31_NestedSubmitNeverLocks ==
    \A t \in DOMAIN th :
        th[t].nested => th[t].pc \notin {"s_lock", "s_ok"}

\* ---------------------------------------------------------------------- C32
\* C32: the fence value that incr allocates for a FrameContext, and that render
\* then signals, is strictly greater than the value the context's fence has
\* completed at that moment (0 for a fresh fence), the first value allocated in
\* the process included.
C32_AllocatedAboveCompleted ==
    [][\A t \in DOMAIN th :
          th[t].pc = "p_wait" /\ th'[t].pc = "p_exec" =>
              LET r == th[t].cur
                  k == th[t].idx + 1
              IN  rend'[r].frame_contexts[k].fence_val >
                      rend[r].frame_contexts[k].completed]_vars

\* ---------------------------------------------------------------------- C33
\* C33: the window procedure a renderer saved when it was built is never
\* imgui_wnd_proc, whatever the interleaving of the activating present with a
\* resize or unhook tearing the previous renderer down; cleanup, which installs
\* the saved procedure, therefore never installs imgui_wnd_proc.
C33_SavedProcNeverOverlay ==
    \A r \in 1..Len(rend) : rend[r].wnd_proc # "imgui"

\* ---------------------------------------------------------------------- C34
\* C34: no step takes the renderer out of IMGUI_RENDERER (a resize detour or
\* unhook) while its lock is held or a thread is inside render on it, and no
\* step cleans a renderer up and drops it while a thread is inside render on
\* it.
C34_NotTakenWhileRendering ==
    [][/\ IMGUI_RENDERER.some /\ ~IMGUI_RENDERER'.some =>
             /\ ~IMGUI_RENDERER.lock
             /\ \A u \in DOMAIN th : ~Rendering(u, IMGUI_RENDERER.ptr)
       /\ \A r \in 1..Len(rend) :
             ~rend[r].freed /\ rend'[r].freed =>
                 \A u \in DOMAIN th : ~Rendering(u, r)]_vars

\* ---------------------------------------------------------------------- C35
\* C35: whenever render is about to pick its FrameContext, the current back
\* buffer index of the swap chain handed to the present detour is smaller than
\* the number of FrameContexts of the renderer, also when that swap chain is
\* not the one the renderer was built with.
C35_BackBufferIndexInPool ==
    \A t \in DOMAIN th :
        th[t].pc = "p_render" =>
            swap[th[t].sc].backIdx < Len(rend[th[t].cur].frame_contexts)

=============================================================================
